---- MODULE Spec2Model ----
(***************************************************************************)
(* Markdown-asset migration pipeline of wizd/image-hosting.                *)
(*                                                                         *)
(* Text is modelled character by character: a string is a sequence of      *)
(* one-character strings, so that the three scanner patterns, the          *)
(* first-occurrence String.replace and its "$" replacement patterns are    *)
(* computed the way the JavaScript code computes them.  The three CJK      *)
(* characters of the generic alt tokens are written "U56FE", "U7247" and   *)
(* "U50CF" (one sequence element each), the backtick "U0060".              *)
(***************************************************************************)
EXTENDS Integers, Sequences, FiniteSets, TLC

(***************************************************************************)
(* Bounds of the model.                                                    *)
(***************************************************************************)
MaxRefs == 2

(***************************************************************************)
(* Strings.                                                                *)
(***************************************************************************)
LowerLetters ==
  {"a","b","c","d","e","f","g","h","i","j","k","l","m",
   "n","o","p","q","r","s","t","u","v","w","x","y","z"}

UpperLetters ==
  {"A","B","C","D","E","F","G","H","I","J","K","L","M",
   "N","O","P","Q","R","S","T","U","V","W","X","Y","Z"}

Digits == {"0","1","2","3","4","5","6","7","8","9"}

Whitespace == {" ", "\n", "\t"}

UpperToLower ==
  [c \in UpperLetters |->
     CASE c = "A" -> "a" [] c = "B" -> "b" [] c = "C" -> "c" [] c = "D" -> "d"
       [] c = "E" -> "e" [] c = "F" -> "f" [] c = "G" -> "g" [] c = "H" -> "h"
       [] c = "I" -> "i" [] c = "J" -> "j" [] c = "K" -> "k" [] c = "L" -> "l"
       [] c = "M" -> "m" [] c = "N" -> "n" [] c = "O" -> "o" [] c = "P" -> "p"
       [] c = "Q" -> "q" [] c = "R" -> "r" [] c = "S" -> "s" [] c = "T" -> "t"
       [] c = "U" -> "u" [] c = "V" -> "v" [] c = "W" -> "w" [] c = "X" -> "x"
       [] c = "Y" -> "y" [] c = "Z" -> "z"]

\* One character under the "i" flag of a regular expression.
FoldCase(c) == IF c \in UpperLetters THEN UpperToLower[c] ELSE c

ToLower(s) == [i \in 1..Len(s) |-> FoldCase(s[i])]

StartsWith(s, p) == Len(s) >= Len(p) /\ SubSeq(s, 1, Len(p)) = p

\* The tail of s from position i on.
From(s, i) == SubSeq(s, i, Len(s))

\* String.prototype.indexOf: the first position where t occurs in s, 0 if none.
IndexOf(s, t) ==
  LET hits == {i \in 1..(Len(s) - Len(t) + 1) : SubSeq(s, i, i + Len(t) - 1) = t}
  IN  IF hits = {} THEN 0 ELSE CHOOSE i \in hits : \A j \in hits : i <= j

\* The first position >= from where s holds the character c, 0 if none.
FindChar(s, c, from) ==
  LET hits == {i \in from..Len(s) : s[i] = c}
  IN  IF hits = {} THEN 0 ELSE CHOOSE i \in hits : \A j \in hits : i <= j

\* String.prototype.trim.
TrimStart(s) ==
  LET keep == {i \in 1..Len(s) : s[i] \notin Whitespace}
  IN  IF keep = {} THEN <<>>
      ELSE From(s, CHOOSE i \in keep : \A j \in keep : i <= j)

TrimEnd(s) ==
  LET keep == {i \in 1..Len(s) : s[i] \notin Whitespace}
  IN  IF keep = {} THEN <<>>
      ELSE SubSeq(s, 1, CHOOSE i \in keep : \A j \in keep : i >= j)

Trim(s) == TrimEnd(TrimStart(s))

(***************************************************************************)
(* Scanner: the three image patterns.                                      *)
(***************************************************************************)
HttpPrefix == <<"h","t","t","p",":","/","/">>

HttpsPrefix == <<"h","t","t","p","s",":","/","/">>

DataImagePrefix == <<"d","a","t","a",":","i","m","a","g","e","/">>

Base64Marker == <<";","b","a","s","e","6","4",",">>

\* https?:\/\/[^)]+ against a locator that holds no ")".
IsRemoteLocator(loc) ==
  \/ StartsWith(loc, HttpPrefix) /\ Len(loc) > Len(HttpPrefix)
  \/ StartsWith(loc, HttpsPrefix) /\ Len(loc) > Len(HttpsPrefix)

\* data:image\/[a-zA-Z+]+;base64,[^)]+ against a locator that holds no ")".
IsBase64Locator(loc) ==
  /\ StartsWith(loc, DataImagePrefix)
  /\ LET rest == From(loc, Len(DataImagePrefix) + 1)
         stop == {i \in 1..Len(rest) :
                    rest[i] \notin (LowerLetters \cup UpperLetters \cup {"+"})}
         n    == IF stop = {} THEN Len(rest) + 1
                 ELSE CHOOSE i \in stop : \A j \in stop : i <= j
     IN  /\ n > 1
         /\ StartsWith(From(rest, n), Base64Marker)
         /\ Len(rest) > n - 1 + Len(Base64Marker)

IsLocalLocator_NoDataLookahead(loc) ==
  /\ Len(loc) >= 1
  /\ ~StartsWith(loc, HttpPrefix)
  /\ ~StartsWith(loc, HttpsPrefix)

\* (?!https?:\/\/)(?!data:image\/)[^)]+ against a locator that holds no ")".
IsLocalLocator(loc) ==
  /\ Len(loc) >= 1
  /\ ~StartsWith(loc, HttpPrefix)
  /\ ~StartsWith(loc, HttpsPrefix)
  /\ ~StartsWith(loc, DataImagePrefix)

LocatorMatches(kind, loc) ==
  CASE kind = "local"  -> IsLocalLocator(loc)
    [] kind = "remote" -> IsRemoteLocator(loc)
    [] kind = "base64" -> IsBase64Locator(loc)

NoMatch == [ok |-> FALSE]

\* One attempt of a pattern at position i: !\[([^\]]*)\]\((locator)\)
MatchAt(kind, s, i) ==
  IF ~(i + 1 <= Len(s) /\ s[i] = "!" /\ s[i + 1] = "[") THEN NoMatch
  ELSE LET j == FindChar(s, "]", i + 2)
       IN  IF j = 0 \/ j + 1 > Len(s) \/ s[j + 1] # "(" THEN NoMatch
           ELSE LET k == FindChar(s, ")", j + 2)
                IN  IF k = 0 \/ ~LocatorMatches(kind, SubSeq(s, j + 2, k - 1))
                    THEN NoMatch
                    ELSE [ok |-> TRUE, index |-> i, last |-> k,
                          full |-> SubSeq(s, i, k),
                          alt |-> SubSeq(s, i + 2, j - 1),
                          loc |-> SubSeq(s, j + 2, k - 1)]

\* Array.from(s.matchAll(pattern)): the matches from left to right, each
\* search resuming after the previous match.
RECURSIVE ScanFrom(_, _, _)
ScanFrom(kind, s, i) ==
  LET hits == {j \in i..Len(s) : MatchAt(kind, s, j).ok}
  IN  IF hits = {} THEN <<>>
      ELSE LET m == MatchAt(kind, s, CHOOSE j \in hits : \A h \in hits : j <= h)
           IN  <<m>> \o ScanFrom(kind, s, m.last + 1)

MatchAll(kind, s) == ScanFrom(kind, s, 1)

(***************************************************************************)
(* String.prototype.replace(searchString, replaceString).                  *)
(***************************************************************************)
\* GetSubstitution for a string pattern (no captures): "$$" is "$", "$&" the
\* matched text, "$" with a backtick the text before the match, "$'" the text
\* after it.
RECURSIVE GetSubstitution(_, _, _, _)
GetSubstitution(repl, matched, before, after) ==
  LET hits == {i \in 1..(Len(repl) - 1) :
                 repl[i] = "$" /\ repl[i + 1] \in {"$", "&", "U0060", "'"}}
  IN  IF hits = {} THEN repl
      ELSE LET p == CHOOSE i \in hits : \A h \in hits : i <= h
           IN  SubSeq(repl, 1, p - 1)
                 \o (CASE repl[p + 1] = "$" -> <<"$">>
                        [] repl[p + 1] = "&" -> matched
                        [] repl[p + 1] = "U0060" -> before
                        [] repl[p + 1] = "'" -> after)
                 \o GetSubstitution(From(repl, p + 2), matched, before, after)

\* The text inserted in place of the first occurrence of pat.
Inserted(s, pat, repl) ==
  LET p == IndexOf(s, pat)
  IN  GetSubstitution(repl, pat, SubSeq(s, 1, p - 1), From(s, p + Len(pat)))

JsReplace(s, pat, repl) ==
  LET p == IndexOf(s, pat)
  IN  IF p = 0 THEN s
      ELSE SubSeq(s, 1, p - 1) \o Inserted(s, pat, repl) \o From(s, p + Len(pat))

\* `![${description}](${uploadResult.fullUrl})`
ImageTag(alt, loc) == <<"!", "[">> \o alt \o <<"]", "(">> \o loc \o <<")">>

(***************************************************************************)
(* Collection identifiers.                                                 *)
(***************************************************************************)
Rep(c, n) == [i \in 1..n |-> c]

HexDigits == Digits \cup {"a","b","c","d","e","f"} \cup {"A","B","C","D","E","F"}

\* /^[0-9a-f]{8}-[0-9a-f]{4}-4[0-9a-f]{3}-[89ab][0-9a-f]{3}-[0-9a-f]{12}$/i
IsUuidV4(id) ==
  /\ Len(id) = 36
  /\ \A i \in 1..36 :
       CASE i \in {9, 14, 19, 24} -> id[i] = "-"
         [] i = 15                -> id[i] = "4"
         [] i = 20                -> id[i] \in {"8", "9", "a", "b", "A", "B"}
         [] OTHER                 -> id[i] \in HexDigits

\* An identifier of the store: version digit v, variant digit r, last digit n.
MakeId(v, r, n) ==
  Rep("0", 8) \o <<"-">> \o Rep("0", 4) \o <<"-", v>> \o Rep("0", 3)
    \o <<"-", r>> \o Rep("0", 3) \o <<"-">> \o Rep("0", 11) \o <<n>>

\* The identifiers the store hands out: uuidv4() values, in order of use.
GoodIds == <<MakeId("4", "8", "1"), MakeId("4", "B", "2"), MakeId("4", "9", "3")>>

\* A malformed identifier (a version-1 UUID) a misbehaving store may return.
BadId == MakeId("1", "8", "9")

\* The --collection option of the command line.
CollName == <<"m">>

(***************************************************************************)
(* File system, inputs.                                                    *)
(***************************************************************************)
\* path.dirname(file) of the input document.
BasePath == <<"/", "b">>

FileScheme == <<"f","i","l","e",":","/","/","/">>

\* The full path processLocalImages checks and uploads.
ResolvePath(localPath) ==
  IF StartsWith(localPath, FileScheme) THEN From(localPath, Len(FileScheme) + 1)
  ELSE IF localPath[1] = "/" THEN localPath
  ELSE BasePath \o <<"/">> \o localPath

\* The image files present next to the input document.
ExistingFiles == {BasePath \o <<"/", "p">>}

\* Mutant: the existence check is gone.
FileExists_Always(fullPath) == TRUE

\* fs.existsSync(fullPath)
FileExists(fullPath) == fullPath \in ExistingFiles

RemoteUrl == HttpPrefix \o <<"r">>

SecureRemoteUrl == HttpsPrefix \o <<"r">>

DataUri == DataImagePrefix \o <<"p">> \o Base64Marker \o <<"Q">>

\* A payload wrapped over two lines: the scanner's [^)]+ takes the newline,
\* the strict (.+)$ of uploadBase64Image does not.
WrappedDataUri == DataImagePrefix \o <<"p">> \o Base64Marker \o <<"Q", "\n", "Q">>

\* A data URI cut before the comma: no pattern of the scanner takes it.
TruncatedDataUri == DataImagePrefix \o <<"p", ";","b","a","s","e","6","4">>

\* The image tags the input documents are made of.
TagPool ==
  { ImageTag(<<"a">>, <<"p">>),
    ImageTag(<<>>, <<"q">>),
    ImageTag(<<"I","M","G">>, <<"p">>),
    ImageTag(<<"$","$">>, RemoteUrl),
    ImageTag(<<"$","&">>, RemoteUrl),
    ImageTag(<<" ">>, SecureRemoteUrl),
    ImageTag(<<"b">>, DataUri),
    ImageTag(<<"i","m","g">>, WrappedDataUri),
    ImageTag(<<>>, TruncatedDataUri) }

RECURSIVE JoinLines(_)
JoinLines(lines) ==
  IF Len(lines) = 0 THEN <<>>
  ELSE IF Len(lines) = 1 THEN lines[1]
  ELSE lines[1] \o <<"\n">> \o JoinLines(Tail(lines))

\* The input documents: up to MaxRefs image tags, one per line.
Documents ==
  {JoinLines(ls) : ls \in UNION {[1..n -> TagPool] : n \in 1..MaxRefs}}

(***************************************************************************)
(* State.                                                                  *)
(***************************************************************************)
VARIABLES
  input,              \* the document read from the input file
  build,              \* which ApiClient the processor is linked with
  auth,               \* "apiKey" or "password" (the AuthOptions given)
  pc,                 \* the orchestrator's state
  collectionId,       \* processMarkdown's local collectionId
  processedMarkdown,  \* processMarkdown's working text between phases
  markdown,           \* the text a phase was entered with
  result,             \* the phase's working string
  matches,            \* the phase's matches, computed at phase entry
  idx,                \* the position of the phase's loop in matches
  output,             \* what processMarkdown returned, <<>> before it returns
  memo,               \* ApiClient.collectionId / collectionName
  colls,              \* the store's collections
  assets,             \* the number of assets the store holds
  requests,           \* history: the requests sent, in order
  ensureCalls,        \* history: the invocations of ensureCollection
  ensured,            \* history: what processMarkdown's ensureCollection gave
  scans,              \* history: the number of matchAll scans
  outcomes,           \* history: one record per processed match
  origin,             \* history: for each character of result, its position
                      \* in input, 0 for a character a replacement inserted
  dpc,                \* ImageDescriber: where the describe call stands
  dcall,              \* ImageDescriber: the operation called and its argument
  dbuffer,            \* ImageDescriber: the image buffer in hand
  dsent,              \* history: the buffers sent to the oracle
  dfailure,           \* history: what failed during the call
  dresult,            \* ImageDescriber: the string the call returned
  options,            \* CLI: the command-line options of the run
  imageDescriber,     \* CLI: processMarkdown's imageDescriber argument
  cpc,                \* CLI: where program.action stands
  exitCode,           \* CLI: the exit code of the process, -1 while it runs
  writes,             \* history: the contents written to the output file
  apiKeys,            \* server: the array kept in api-keys.json
  dataRoot,           \* server: the collection directories under DATA_ROOT
  now,                \* server: the clock
  uuids,              \* server: how many identifiers uuidv4() has generated
  response,           \* server: the response to the last request
  createdLog,         \* history: the collections POST /v1/collections made
  deletedLog,         \* history: the collections whose DELETE returned 200
  revivedLog,         \* history: deleted collections an upload made again
  uploadedLog,        \* history: the images the upload route answered with
  revokedLog,         \* history: the keys deleted so far, and by whom
  gsp,                \* the activation of getSurroundingParagraphs
  usersFile,          \* the user list stored in users.json
  calls               \* the register requests and their createUser calls

vars == <<input, build, auth, pc, collectionId, processedMarkdown, markdown,
          result, matches, idx, output, memo, colls, assets, requests,
          ensureCalls, ensured, scans, outcomes, origin,
          dpc, dcall, dbuffer, dsent, dfailure, dresult,
          options, imageDescriber, cpc, exitCode, writes,
          apiKeys, dataRoot, now, uuids, response, createdLog, deletedLog,
          revivedLog, uploadedLog, revokedLog,
          gsp, usersFile, calls>>

processor == <<input, build, auth, pc, collectionId, processedMarkdown,
               markdown, result, matches, idx, output, memo, colls, assets,
               requests, ensureCalls, ensured, scans, outcomes, origin>>

describer == <<dpc, dcall, dbuffer, dsent, dfailure, dresult>>

cli == <<options, imageDescriber, cpc, exitCode, writes>>

server == <<apiKeys, dataRoot, now, uuids, response, createdLog, deletedLog,
            revivedLog, uploadedLog, revokedLog>>

context == <<gsp>>

accounts == <<usersFile, calls>>

Count(seq, x) == Cardinality({i \in DOMAIN seq : seq[i] = x})

(***************************************************************************)
(* Asset client.                                                           *)
(***************************************************************************)
\* initialize(): with an API key nothing is sent, otherwise login() posts the
\* credentials, on every call.
Initialize(bld, au) ==
  IF bld = "v1" /\ au = "password" THEN <<"login">> ELSE <<>>

\* if (this.collectionId && this.collectionName === name)
MemoHit(m, name) == m.id # <<>> /\ m.name = name

NextGoodId(cs) ==
  LET free == {i \in DOMAIN GoodIds :
                 \A c \in cs : c.collectionId # GoodIds[i]}
  IN  IF free = {} THEN <<>>
      ELSE GoodIds[CHOOSE i \in free : \A j \in free : i <= j]

\* The ways one ensureCollection(name) call can go, given what the store and
\* the network answer.
EnsureLabels(bld, au, m, cs, name) ==
  IF MemoHit(m, name) THEN {"memo"}
  ELSE (IF Initialize(bld, au) # <<>> THEN {"loginFail"} ELSE {})
       \cup {"lookupFail"}
       \cup (IF \E c \in cs : c.collectionName = name THEN {"found"}
             ELSE {"createFail", "createBad"}
                  \cup (IF NextGoodId(cs) # <<>> THEN {"createOk"} ELSE {}))

\* The validation of the identifier a create request returned.
CreatedIdAccepted(bld, id) == bld = "legacy" \/ IsUuidV4(id)

EnsureCollection(bld, au, m, cs, name, label) ==
  LET sent == Initialize(bld, au) \o <<"lookup">>
      thrown(reqs, cs2) ==
        [ok |-> FALSE, id |-> <<>>, memo |-> m, colls |-> cs2, requests |-> reqs]
      created(id) ==
        LET cs2 == cs \cup {[collectionId |-> id, collectionName |-> name]}
        IN  IF CreatedIdAccepted(bld, id)
            THEN [ok |-> TRUE, id |-> id, memo |-> [id |-> id, name |-> name],
                  colls |-> cs2, requests |-> sent \o <<"create">>]
            ELSE thrown(sent \o <<"create">>, cs2)
  IN  CASE label = "memo" ->
             [ok |-> TRUE, id |-> m.id, memo |-> m, colls |-> cs,
              requests |-> <<>>]
        [] label = "loginFail"  -> thrown(<<"login">>, cs)
        [] label = "lookupFail" -> thrown(sent, cs)
        [] label = "found" ->
             LET c == CHOOSE c \in cs : c.collectionName = name
             IN  [ok |-> TRUE, id |-> c.collectionId,
                  memo |-> [id |-> c.collectionId, name |-> name],
                  colls |-> cs, requests |-> sent]
        [] label = "createFail" -> thrown(sent \o <<"create">>, cs)
        [] label = "createOk"   -> created(NextGoodId(cs))
        [] label = "createBad"  -> created(BadId)

\* Mutant: the data URI is tested with the scanner's pattern.
IsStrictDataUri_AsScanned(s) == IsBase64Locator(s)

\* /^data:([A-Za-z-+/]+);base64,(.+)$/
IsStrictDataUri(s) ==
  LET dataPrefix == <<"d","a","t","a",":">>
      rest == From(s, Len(dataPrefix) + 1)
      stop == {i \in 1..Len(rest) :
                 rest[i] \notin (LowerLetters \cup UpperLetters \cup {"-", "+", "/"})}
      n    == IF stop = {} THEN Len(rest) + 1
              ELSE CHOOSE i \in stop : \A j \in stop : i <= j
      payload == From(rest, n + Len(Base64Marker))
  IN  /\ StartsWith(s, dataPrefix)
      /\ n > 1
      /\ StartsWith(From(rest, n), Base64Marker)
      /\ Len(payload) >= 1
      /\ \A i \in 1..Len(payload) : payload[i] \notin {"\n", "\r"}

RECURSIVE Decimal(_)
Decimal(n) ==
  LET digit == <<"0","1","2","3","4","5","6","7","8","9">>[(n % 10) + 1]
  IN  IF n < 10 THEN <<digit>> ELSE Decimal(n \div 10) \o <<digit>>

ImageRootUrl == HttpPrefix \o <<"s">>

\* fullUrl of the n-th stored asset: the root URL and the asset's fresh id.
HostedUrl(n) == ImageRootUrl \o <<"/">> \o Decimal(n)

\* The ways one upload call can go.  ens is the way of the ensureCollection
\* call the upload makes ("none" when it makes none), out the outcome.
UploadChoices(bld, au, m, cs, kind, loc, cid) ==
  IF bld = "v1"
  THEN LET login == IF Initialize(bld, au) # <<>> THEN {"loginFail"} ELSE {}
           again == IF Initialize(bld, au) # <<>> THEN {"loginFail2"} ELSE {}
           outs ==
             CASE kind = "local"  -> login \cup {"uploadFail", "ok"}
               [] kind = "remote" ->
                    login \cup {"fetchFail"} \cup again \cup {"uploadFail", "ok"}
               [] kind = "base64" ->
                    IF IsStrictDataUri(loc)
                    THEN login \cup again \cup {"uploadFail", "ok"}
                    ELSE login \cup {"parseFail"}
       IN  {[ens |-> "none", out |-> o] : o \in outs}
  ELSE (IF kind = "remote" THEN {[ens |-> "none", out |-> "fetchFail"]} ELSE {})
       \cup UNION {
              IF EnsureCollection(bld, au, m, cs, cid, e).ok
              THEN {[ens |-> e, out |-> o] :
                      o \in IF kind = "base64" /\ ~IsStrictDataUri(loc)
                            THEN {"uploadFail"} ELSE {"uploadFail", "ok"}}
              ELSE {[ens |-> e, out |-> "ensureFail"]}
              : e \in EnsureLabels(bld, au, m, cs, cid)}

\* uploadLocalImage / uploadRemoteImage / uploadBase64Image, second argument
\* cid, when the call goes the way ch.
Upload(bld, au, m, cs, n, kind, loc, cid, ch) ==
  LET e == IF ch.ens = "none"
           THEN [ok |-> TRUE, id |-> cid, memo |-> m, colls |-> cs,
                 requests |-> <<>>]
           ELSE EnsureCollection(bld, au, m, cs, cid, ch.ens)
      fetch == IF kind = "remote" THEN <<"fetch">> ELSE <<>>
      init  == Initialize(bld, au)
      sent ==
        IF bld = "v1"
        THEN CASE ch.out = "loginFail"  -> init
               [] ch.out = "fetchFail"  -> init \o fetch
               [] ch.out = "parseFail"  -> init
               [] ch.out = "loginFail2" -> init \o fetch \o init
               [] OTHER ->
                    init \o fetch \o (IF kind = "local" THEN <<>> ELSE init)
                      \o <<"upload">>
        ELSE CASE ch.out = "fetchFail"  -> fetch
               [] ch.out = "ensureFail" -> fetch \o e.requests
               [] OTHER -> fetch \o e.requests \o <<"upload">>
  IN  [ok |-> ch.out = "ok",
       url |-> IF ch.out = "ok" THEN HostedUrl(n + 1) ELSE <<>>,
       requests |-> sent,
       ensures |-> IF ch.ens = "none" THEN 0 ELSE 1,
       memo |-> e.memo, colls |-> e.colls,
       assets |-> IF ch.out = "ok" THEN n + 1 ELSE n]

(***************************************************************************)
(* Description of an image.                                                *)
(***************************************************************************)
GenericTokens ==
  { <<"i","m","a","g","e">>, <<"i","m","g">>, <<"p","i","c","t","u","r","e">>,
    <<"U56FE","U7247">>, <<"U56FE","U50CF">> }

\* !altText || altText.trim() === "" ||
\*   /^(image|img|picture|...)$/i.test(altText.trim())
NeedsDescription(altText) ==
  \/ altText = <<>>
  \/ Trim(altText) = <<>>
  \/ ToLower(Trim(altText)) \in GenericTokens

\* The texts the description endpoint answers with.
DescriptionTexts == {<<"d">>}

\* apiClient.generateImageDescription: a description, or a thrown error.
DescribeChoices(altText) ==
  IF NeedsDescription(altText)
  THEN {[ok |-> FALSE, text |-> <<>>]}
       \cup {[ok |-> TRUE, text |-> t] : t \in DescriptionTexts}
  ELSE {[ok |-> TRUE, text |-> altText]}

(***************************************************************************)
(* Orchestrator: processMarkdown and its three phases.                     *)
(***************************************************************************)
InitialStores ==
  { {},
    {[collectionId |-> GoodIds[1], collectionName |-> CollName]},
    {[collectionId |-> BadId, collectionName |-> CollName]} }

\* The document, the client and the store before processMarkdown has done
\* anything.
Fresh ==
  /\ input \in Documents
  /\ build \in {"legacy", "v1"}
  /\ collectionId = <<>>
  /\ processedMarkdown = input
  /\ markdown = <<>>
  /\ result = <<>>
  /\ matches = <<>>
  /\ idx = 1
  /\ output = <<>>
  /\ memo = [id |-> <<>>, name |-> <<>>]
  /\ colls \in InitialStores
  /\ assets = 0
  /\ requests = <<>>
  /\ ensureCalls = 0
  /\ ensured = [called |-> FALSE, ok |-> FALSE, id |-> <<>>]
  /\ scans = 0
  /\ outcomes = <<>>
  /\ origin = [i \in 1..Len(input) |-> i]

\* The command lines the CLI is run with: whether <file> exists, --describe,
\* --ai-provider and whether the provider's key is given.
DefaultOptions ==
  [fileExists |-> TRUE, describe |-> FALSE, aiProvider |-> "openai",
   aiKey |-> FALSE]

CliOptions ==
  { DefaultOptions,
    [DefaultOptions EXCEPT !.fileExists = FALSE],
    [DefaultOptions EXCEPT !.describe = TRUE, !.aiKey = TRUE],
    [DefaultOptions EXCEPT !.describe = TRUE, !.aiProvider = "xai"],
    [DefaultOptions EXCEPT !.describe = TRUE, !.aiProvider = "other",
                           !.aiKey = TRUE] }

(***************************************************************************)
(* The hosting server's stores: api-keys.json and the directories under    *)
(* DATA_ROOT.  Dates are integers on the server's clock.                   *)
(***************************************************************************)
MaxClock == 1

MaxKeys == 1

MaxColls == 1

MaxFiles == 2

\* A date field that is absent (undefined).
NoDate == -1

\* The n-th key generateApiKey() returns, cut to ten characters.
KeyOf(n) == Rep("k", 8) \o <<"-">> \o Decimal(n)

\* process.env.ROOT_API_KEY.
RootKey == <<"r","o","o","t">>

\* api-keys.json when the server starts: user A holds a key without expiry,
\* user B a key that expires at date 0.
SeedKeys ==
  << [id |-> 1, key |-> KeyOf(1), name |-> "seed", userId |-> "A",
      expiresAt |-> NoDate, isActive |-> TRUE, lastUsedAt |-> NoDate],
     [id |-> 2, key |-> KeyOf(2), name |-> "seed", userId |-> "B",
      expiresAt |-> 0, isActive |-> TRUE, lastUsedAt |-> NoDate] >>

\* A JSON object and a JSON array as a response body.
Obj(fields) == [json |-> "object", val |-> fields]

Arr(items) == [json |-> "array", val |-> items]

NoResponse ==
  [route |-> "none", target |-> <<>>, status |-> 0, user |-> "none",
   body |-> Obj([none |-> TRUE])]

\* The server has started and has answered no request.
ServerStarted ==
  /\ apiKeys = SeedKeys
  /\ dataRoot = {}
  /\ now = 0
  /\ uuids = [keys |-> Len(SeedKeys), colls |-> 0, files |-> 0]
  /\ response = NoResponse
  /\ createdLog = {}
  /\ deletedLog = {}
  /\ revivedLog = {}
  /\ uploadedLog = {}
  /\ revokedLog = {}

\* The ImageDescriber has no call in progress.
\* getSurroundingParagraphs has not been called.
NoActivation ==
  [pc |-> "idle", markdown |-> <<>>, matchIndex |-> 0, currentLineIndex |-> 0,
   beforeText |-> <<>>, afterText |-> <<>>]

ContextIdle == gsp = NoActivation

\* The register requests the server can be handling at the same time.
MaxCalls == 3

Callers == 1..MaxCalls

NoCall == [pc |-> "idle", email |-> "none", users |-> <<>>, status |-> 0]

\* users.json holds [] and no request has arrived.
AccountsIdle ==
  /\ usersFile = <<>>
  /\ calls = [c \in Callers |-> NoCall]

DescriberIdle ==
  /\ dpc = "idle"
  /\ dcall = [op |-> "none", arg |-> <<>>]
  /\ dbuffer = "none"
  /\ dsent = <<>>
  /\ dfailure = "none"
  /\ dresult = <<>>

\* processMarkdown is entered by a caller that passes no imageDescriber (the
\* parameter's default, null).
Init ==
  /\ Fresh
  /\ auth \in {"apiKey", "password"}
  /\ build = "legacy" => auth = "password"
  /\ pc = "Init"
  /\ options = DefaultOptions
  /\ imageDescriber = "null"
  /\ cpc = "processMarkdown"
  /\ exitCode = -1
  /\ writes = <<>>
  /\ DescriberIdle
  /\ ServerStarted
  /\ ContextIdle
  /\ AccountsIdle

\* Mutant: the identifier is not validated.
CollectionIdValid_Unchecked(id) == TRUE

\* if (!uuidRegex.test(collectionId)) throw ...
CollectionIdValid(id) == IsUuidV4(id)

\* collectionId = await apiClient.ensureCollection(collectionName), the
\* validation of the identifier, and the rethrow of any failure.
ResolveCollection ==
  /\ pc = "Init"
  /\ \E label \in EnsureLabels(build, auth, memo, colls, CollName) :
       LET e == EnsureCollection(build, auth, memo, colls, CollName, label)
       IN  /\ memo' = e.memo
           /\ colls' = e.colls
           /\ requests' = requests \o e.requests
           /\ ensured' = [called |-> TRUE, ok |-> e.ok, id |-> e.id]
           /\ collectionId' = e.id
           /\ pc' = IF e.ok /\ CollectionIdValid(e.id)
                    THEN "CollectionResolved" ELSE "Aborted"
  /\ ensureCalls' = ensureCalls + 1
  /\ UNCHANGED <<context, accounts, describer, cli, server, input, build, auth, processedMarkdown, markdown,
                 result, matches, idx, output, assets, scans, outcomes,
                 origin>>

\* The matches of a phase, each with the position in the input document of
\* its first character (history, 0 for inserted text).
Scan(kind, text) ==
  LET ms == MatchAll(kind, text)
  IN  [i \in 1..Len(ms) |->
         [index |-> ms[i].index, full |-> ms[i].full, alt |-> ms[i].alt,
          loc |-> ms[i].loc, org |-> origin[ms[i].index]]]

\* let result = markdown; matches = Array.from(result.matchAll(REGEX))
EnterPhase(kind, phase, text) ==
  /\ pc' = phase
  /\ processedMarkdown' = text
  /\ markdown' = text
  /\ result' = text
  /\ matches' = Scan(kind, text)
  /\ idx' = 1
  /\ scans' = scans + 1
  /\ UNCHANGED <<context, accounts, describer, cli, server, input, build, auth, collectionId, output, memo,
                 colls, assets, requests, ensureCalls, ensured, outcomes,
                 origin>>

StartLocalPhase ==
  /\ pc = "CollectionResolved"
  /\ EnterPhase("local", "LocalPhase", processedMarkdown)

StartRemotePhase_ScansInput ==
  /\ pc = "LocalPhase"
  /\ idx > Len(matches)
  /\ EnterPhase("remote", "RemotePhase", input)

StartRemotePhase ==
  /\ pc = "LocalPhase"
  /\ idx > Len(matches)
  /\ EnterPhase("remote", "RemotePhase", result)

StartBase64Phase ==
  /\ pc = "RemotePhase"
  /\ idx > Len(matches)
  /\ EnterPhase("base64", "Base64Phase", result)

\* return processedMarkdown
Finish ==
  /\ pc = "Base64Phase"
  /\ idx > Len(matches)
  /\ pc' = "Done"
  /\ processedMarkdown' = result
  /\ output' = result
  /\ UNCHANGED <<context, accounts, describer, cli, server, input, build, auth, collectionId, markdown,
                 result, matches, idx, memo, colls, assets, requests,
                 ensureCalls, ensured, scans, outcomes, origin>>

\* Mutant: the error leaves the loop and processMarkdown.
Caught_Rethrows(phase) == "Aborted"

\* The catch block of a phase's loop: the error is logged and the loop goes
\* on in the same phase.
Caught(phase) == phase

\* What became of one match (history): sent are the requests its upload call
\* made.
Outcome(kind, m, status, sent, described, url, written) ==
  [kind |-> kind, org |-> m.org, full |-> m.full, alt |-> m.alt, loc |-> m.loc,
   status |-> status, sent |-> sent, uploads |-> Count(sent, "upload"),
   described |-> described, url |-> url, written |-> written]

\* A match the loop leaves with "continue" before any request.
SkipMatch(kind, m, status) ==
  /\ outcomes' = Append(outcomes, Outcome(kind, m, status, <<>>, FALSE, <<>>, <<>>))
  /\ idx' = idx + 1
  /\ UNCHANGED <<context, accounts, describer, cli, server, input, build, auth, pc, collectionId,
                 processedMarkdown, markdown, result, matches, output, memo,
                 colls, assets, requests, ensureCalls, ensured, scans, origin>>

DescribeTriggered_UploadOrNot(uploaded, altText) == NeedsDescription(altText)

\* The description is asked for after the upload call has returned, when the
\* alt text asks for one.
DescribeTriggered(uploaded, altText) == uploaded /\ NeedsDescription(altText)

\* One iteration of a phase's loop past its guards: upload, then the
\* description when the alt text asks for one, then the replacement.
ProcessMatch(kind, m, loc) ==
  \E ch \in UploadChoices(build, auth, memo, colls, kind, loc, collectionId) :
    LET u == Upload(build, auth, memo, colls, assets, kind, loc, collectionId, ch)
        trigger == DescribeTriggered(u.ok, m.alt)
    IN  \E d \in (IF u.ok THEN DescribeChoices(m.alt)
                  ELSE {[ok |-> FALSE, text |-> <<>>]}) :
          LET replaced == u.ok /\ d.ok
              repl == ImageTag(d.text, u.url)
              p    == IndexOf(result, m.full)
              ins  == Inserted(result, m.full, repl)
              done == replaced /\ p > 0
          IN  /\ memo' = u.memo
              /\ colls' = u.colls
              /\ assets' = u.assets
              /\ requests' = requests \o u.requests
                               \o (IF trigger THEN <<"describe">> ELSE <<>>)
              /\ ensureCalls' = ensureCalls + u.ensures
              /\ result' = IF replaced THEN JsReplace(result, m.full, repl)
                           ELSE result
              /\ origin' = IF done
                           THEN SubSeq(origin, 1, p - 1) \o Rep(0, Len(ins))
                                  \o From(origin, p + Len(m.full))
                           ELSE origin
              /\ outcomes' =
                   Append(outcomes,
                          Outcome(kind, m,
                                  IF replaced THEN "replaced"
                                  ELSE IF u.ok THEN "describeFailed"
                                  ELSE "uploadFailed",
                                  u.requests, trigger, u.url,
                                  IF done THEN ins ELSE <<>>))
              /\ idx' = idx + 1
              /\ pc' = IF replaced THEN pc ELSE Caught(pc)
              /\ UNCHANGED <<context, accounts, describer, cli, server, input, build, auth, collectionId,
                             processedMarkdown, markdown, matches, output,
                             ensured, scans>>

ProcessLocalImage ==
  /\ pc = "LocalPhase"
  /\ idx <= Len(matches)
  /\ LET m == matches[idx]
         fullPath == ResolvePath(m.loc)
     IN  IF ~FileExists(fullPath) THEN SkipMatch("local", m, "missing")
         ELSE ProcessMatch("local", m, fullPath)

ProcessRemoteImage ==
  /\ pc = "RemotePhase"
  /\ idx <= Len(matches)
  /\ ProcessMatch("remote", matches[idx], matches[idx].loc)

ProcessBase64Image ==
  /\ pc = "Base64Phase"
  /\ idx <= Len(matches)
  /\ LET m == matches[idx]
     IN  IF m.loc = <<>> THEN SkipMatch("base64", m, "invalid")
         ELSE ProcessMatch("base64", m, m.loc)

Next ==
  \/ ResolveCollection
  \/ StartLocalPhase
  \/ ProcessLocalImage
  \/ StartRemotePhase
  \/ ProcessRemoteImage
  \/ StartBase64Phase
  \/ ProcessBase64Image
  \/ Finish

Spec == Init /\ [][Next]_vars

(***************************************************************************)
(* ImageDescriber: the three describe operations of the server.            *)
(***************************************************************************)
FallbackDescription == <<"I","m","a","g","e">>

TrailingPunctuation == {".", "!", ",", ";", ":"}

\* cleanDescription: trim, truncate to 97 characters plus "...", then
\* replace(/[.!,;:]$/, "")
cleanDescription(text) ==
  LET trimmed == Trim(text)
      cut == IF Len(trimmed) > 100
             THEN SubSeq(trimmed, 1, 97) \o <<".", ".", ".">>
             ELSE trimmed
  IN  IF cut # <<>> /\ cut[Len(cut)] \in TrailingPunctuation
      THEN SubSeq(cut, 1, Len(cut) - 1)
      ELSE cut

\* The arguments the operations are called with.
ImagePaths == ExistingFiles \cup {BasePath \o <<"/", "q">>}
ImageUrls == {RemoteUrl, SecureRemoteUrl}
Base64Inputs == {DataUri, WrappedDataUri, TruncatedDataUri, RemoteUrl}

\* What the oracle answers: the request is rejected (network, quota), the
\* response carries no choice, or choices[0].message.content is a text
\* (null and "" are both read as "").
OracleTexts ==
  { <<>>, <<"a">>, <<"a", ".">>, <<"a", ".", ".">>, <<" ", "a", "!", " ">>,
    <<"a", ":", "b">>, Rep("x", 100), Rep("x", 101),
    Rep("x", 99) \o <<".">>, Rep("x", 96) \o <<".", "y", "y", "y", "y">> }

OracleReplies ==
  {[kind |-> "rejected", content |-> <<>>],
   [kind |-> "noChoices", content |-> <<>>]}
    \cup {[kind |-> "text", content |-> t] : t \in OracleTexts}

\* Mutant: the catch block of a describe operation rethrows.
DescribeCaught_Rethrows == [pc |-> "thrown", result |-> <<>>]

\* catch (error) { ...; return "Image" } of the three describe operations
DescribeCaught == [pc |-> "returned", result |-> FallbackDescription]

\* catch (error) { ...; return "Image" } of generateDescription
GenerateCaught == [pc |-> "returned", result |-> FallbackDescription]

DescribeCall(op, arg) ==
  /\ dpc = "idle"
  /\ dcall' = [op |-> op, arg |-> arg]
  /\ dpc' = "load"
  /\ UNCHANGED <<context, accounts, processor, cli, server, dbuffer, dsent, dfailure, dresult>>

describeImageFile == \E imagePath \in ImagePaths : DescribeCall("file", imagePath)

describeImageUrl == \E imageUrl \in ImageUrls : DescribeCall("url", imageUrl)

describeBase64Image ==
  \E base64Data \in Base64Inputs : DescribeCall("base64", base64Data)

\* The load failed: the operation's catch block ends the call.
LoadFailed(what) ==
  /\ dfailure' = what
  /\ dpc' = DescribeCaught.pc
  /\ dresult' = DescribeCaught.result
  /\ UNCHANGED <<context, accounts, processor, cli, server, dcall, dbuffer, dsent>>

Loaded ==
  /\ dbuffer' = "original"
  /\ dpc' = "optimize"
  /\ UNCHANGED <<context, accounts, processor, cli, server, dcall, dsent, dfailure, dresult>>

\* prepareImage: fs.readFileSync(imagePath)
ReadImageFile ==
  /\ dpc = "load"
  /\ dcall.op = "file"
  /\ \E readable \in (IF FileExists(dcall.arg) THEN BOOLEAN ELSE {FALSE}) :
       IF readable THEN Loaded ELSE LoadFailed("read")

\* axios.get(imageUrl, { responseType: "arraybuffer" })
DownloadImage ==
  /\ dpc = "load"
  /\ dcall.op = "url"
  /\ \E fetched \in BOOLEAN : IF fetched THEN Loaded ELSE LoadFailed("fetch")

\* base64Data.match(/^data:([A-Za-z-+/]+);base64,(.+)$/)
DecodeBase64Image ==
  /\ dpc = "load"
  /\ dcall.op = "base64"
  /\ IF IsStrictDataUri(dcall.arg) THEN Loaded ELSE LoadFailed("parse")

\* optimizeImageBuffer: the resized buffer, or the buffer it was given when
\* sharp throws
optimizeImageBuffer ==
  /\ dpc = "optimize"
  /\ \E resized \in BOOLEAN :
       dbuffer' = IF resized THEN "optimized" ELSE dbuffer
  /\ dpc' = "generate"
  /\ UNCHANGED <<context, accounts, processor, cli, server, dcall, dsent, dfailure, dresult>>

generateDescription ==
  /\ dpc = "generate"
  /\ \E reply \in OracleReplies :
       /\ dsent' = Append(dsent, dbuffer)
       /\ IF reply.kind = "text"
          THEN /\ dpc' = "returned"
               /\ dresult' = cleanDescription(reply.content)
               /\ dfailure' = dfailure
          ELSE /\ dpc' = GenerateCaught.pc
               /\ dresult' = GenerateCaught.result
               /\ dfailure' = IF reply.kind = "rejected" THEN "oracle"
                              ELSE "malformed"
  /\ UNCHANGED <<context, accounts, processor, cli, server, dcall, dbuffer>>

DescriberInit ==
  /\ Init
  /\ input = ImageTag(<<"a">>, <<"p">>)
  /\ build = "v1"
  /\ auth = "apiKey"
  /\ colls = {}

DescriberNext ==
  \/ describeImageFile
  \/ describeImageUrl
  \/ describeBase64Image
  \/ ReadImageFile
  \/ DownloadImage
  \/ DecodeBase64Image
  \/ optimizeImageBuffer
  \/ generateDescription

DescriberSpec == DescriberInit /\ [][DescriberNext]_vars

(***************************************************************************)
(* The command-line program: program.action around processMarkdown.        *)
(***************************************************************************)
\* Mutant: the existence of the input file is not tested.
InputFileMissing_Ignored(opts) == FALSE

\* if (!fs.existsSync(file))
InputFileMissing(opts) == ~opts.fileExists

\* if (!options.apiKey && (!options.email || !options.password))
CredentialsMissing(au) == au = "none"

\* The validation of the AI options when --describe is given.
AiOptionsInvalid(opts) ==
  opts.describe /\ (opts.aiProvider \notin {"openai", "xai"} \/ ~opts.aiKey)

\* process.exit(code)
Exit(code) ==
  /\ cpc' = "exited"
  /\ exitCode' = code

CliInit ==
  /\ Fresh
  /\ auth \in {"none", "apiKey", "password"}
  /\ build = "legacy" => auth # "apiKey"
  /\ pc = "NotCalled"
  /\ options \in CliOptions
  /\ imageDescriber = "null"
  /\ cpc = "start"
  /\ exitCode = -1
  /\ writes = <<>>
  /\ DescriberIdle
  /\ ServerStarted
  /\ ContextIdle
  /\ AccountsIdle

\* The three validations at the head of program.action.
CliValidate ==
  /\ cpc = "start"
  /\ IF \/ InputFileMissing(options)
        \/ CredentialsMissing(auth)
        \/ AiOptionsInvalid(options)
     THEN Exit(1)
     ELSE cpc' = "validated" /\ exitCode' = exitCode
  /\ UNCHANGED <<context, accounts, processor, describer, server, options, imageDescriber, writes>>

\* The request apiClient.initialize() sends when the CLI calls it.
CliLogin ==
  IF build = "legacy" THEN <<"login">> ELSE Initialize(build, auth)

\* new ApiClient(...), await apiClient.initialize(), the ImageDescriber when
\* --describe is given.
CliInitialize ==
  /\ cpc = "validated"
  /\ requests' = requests \o CliLogin
  /\ \E loggedIn \in (IF CliLogin = <<>> THEN {TRUE} ELSE BOOLEAN) :
       IF loggedIn
       THEN /\ cpc' = "initialized"
            /\ exitCode' = exitCode
            /\ imageDescriber' = IF options.describe THEN "describer"
                                 ELSE "null"
       ELSE Exit(1) /\ imageDescriber' = imageDescriber
  /\ UNCHANGED <<context, accounts, describer, server, options, writes, input, build, auth, pc,
                 collectionId, processedMarkdown, markdown, result, matches,
                 idx, output, memo, colls, assets, ensureCalls, ensured,
                 scans, outcomes, origin>>

\* fs.readFileSync(file) and the call of processMarkdown
CliProcessMarkdown ==
  /\ cpc = "initialized"
  /\ cpc' = "processMarkdown"
  /\ pc' = "Init"
  /\ UNCHANGED <<context, accounts, describer, server, options, imageDescriber, exitCode, writes, input,
                 build, auth, collectionId, processedMarkdown, markdown,
                 result, matches, idx, output, memo, colls, assets, requests,
                 ensureCalls, ensured, scans, outcomes, origin>>

\* fs.writeFileSync(outputFile, processedMarkdown), and the process ends
CliWriteOutput ==
  /\ cpc = "processMarkdown"
  /\ pc = "Done"
  /\ writes' = Append(writes, output)
  /\ Exit(0)
  /\ UNCHANGED <<context, accounts, processor, describer, server, options, imageDescriber>>

\* catch (error) { ...; process.exit(1) } around processMarkdown
CliCatch ==
  /\ cpc = "processMarkdown"
  /\ pc = "Aborted"
  /\ Exit(1)
  /\ UNCHANGED <<context, accounts, processor, describer, server, options, imageDescriber, writes>>

CliNext ==
  \/ CliValidate
  \/ CliInitialize
  \/ CliProcessMarkdown
  \/ ResolveCollection
  \/ StartLocalPhase
  \/ ProcessLocalImage
  \/ StartRemotePhase
  \/ ProcessRemoteImage
  \/ StartBase64Phase
  \/ ProcessBase64Image
  \/ Finish
  \/ CliWriteOutput
  \/ CliCatch

CliSpec == CliInit /\ [][CliNext]_vars

(***************************************************************************)
(* The hosting server: the API-key middleware, the API-key routes and the  *)
(* collection and asset routes.                                            *)
(***************************************************************************)
\* A request without the X-API-Key header.
NoHeader == <<>>

\* The keys a request may carry.
Headers == {NoHeader, RootKey} \cup {KeyOf(n) : n \in 1..uuids.keys}

KeyExpired_Never(k) == FALSE

\* apiKeyData.expiresAt && new Date(apiKeyData.expiresAt) < new Date()
KeyExpired(k) == k.expiresAt # NoDate /\ k.expiresAt < now

FindByKey(key) == SelectSeq(apiKeys, LAMBDA k : k.key = key /\ k.isActive)

FindByUserId_AnyUser(keys, userId) == keys

FindByUserId(keys, userId) == SelectSeq(keys, LAMBDA k : k.userId = userId)

\* The middleware's verdict on a request: it passes the request on as a
\* user, or answers 401 or 403 itself.
authenticateApiKey(hdr) ==
  IF hdr = NoHeader THEN [passed |-> FALSE, status |-> 401, user |-> "none"]
  ELSE IF hdr = RootKey THEN [passed |-> TRUE, status |-> 0, user |-> "root"]
  ELSE LET found == FindByKey(hdr)
       IN  IF found = <<>> \/ KeyExpired(found[1]) \/ ~found[1].isActive
           THEN [passed |-> FALSE, status |-> 403, user |-> "none"]
           ELSE [passed |-> TRUE, status |-> 0, user |-> found[1].userId]

updateLastUsed(key) ==
  LET at == {i \in DOMAIN apiKeys : apiKeys[i].key = key}
  IN  [i \in DOMAIN apiKeys |->
         IF at # {} /\ i = CHOOSE j \in at : \A l \in at : j <= l
         THEN [apiKeys[i] EXCEPT !.lastUsedAt = now]
         ELSE apiKeys[i]]

\* api-keys.json once the middleware has run on the request.
TouchedKeys(hdr) ==
  IF authenticateApiKey(hdr).passed /\ hdr # RootKey
  THEN updateLastUsed(hdr)
  ELSE apiKeys

\* key.substring(0, 8) + "..."
Mask(key) == SubSeq(key, 1, 8) \o <<".", ".", ".">>

toApiKeyDTO(k, includeFullKey) ==
  [id |-> k.id, name |-> k.name,
   key |-> IF includeFullKey THEN k.key ELSE Mask(k.key),
   lastUsedAt |-> k.lastUsedAt, expiresAt |-> k.expiresAt,
   isActive |-> k.isActive]

Reply(route, target, status, user, body) ==
  response' = [route |-> route, target |-> target, status |-> status,
               user |-> user, body |-> body]

Error(text) == Obj([error |-> text])

\* The middleware answered the request itself.
Refused(route, target, hdr) ==
  Reply(route, target, authenticateApiKey(hdr).status, "none",
        Error("unauthorized"))

CreateApiKey ==
  \E hdr \in Headers, name \in {"", "n"}, expiresAt \in {NoDate, 0} :
    LET caller == authenticateApiKey(hdr)
        fresh  == [id |-> uuids.keys + 1, key |-> KeyOf(uuids.keys + 1),
                   name |-> name, userId |-> caller.user,
                   expiresAt |-> expiresAt, isActive |-> TRUE,
                   lastUsedAt |-> NoDate]
    IN  /\ uuids.keys < Len(SeedKeys) + MaxKeys
        /\ IF ~caller.passed
           THEN /\ Refused("POST /api-keys", <<>>, hdr)
                /\ UNCHANGED <<apiKeys, uuids>>
           ELSE IF name = ""
           THEN /\ Reply("POST /api-keys", <<>>, 400, caller.user,
                         Error("API key name is required"))
                /\ apiKeys' = TouchedKeys(hdr)
                /\ UNCHANGED uuids
           ELSE /\ apiKeys' = Append(TouchedKeys(hdr), fresh)
                /\ uuids' = [uuids EXCEPT !.keys = @ + 1]
                /\ Reply("POST /api-keys", <<>>, 201, caller.user,
                         Obj([apiKey |-> toApiKeyDTO(fresh, TRUE)]))
        /\ UNCHANGED <<context, accounts, processor, describer, cli, dataRoot, now, createdLog,
                       deletedLog, revivedLog, uploadedLog, revokedLog>>

GetUserApiKeys ==
  \E hdr \in Headers :
    LET caller == authenticateApiKey(hdr)
        mine   == FindByUserId(TouchedKeys(hdr), caller.user)
    IN  /\ IF ~caller.passed
           THEN /\ Refused("GET /api-keys", <<>>, hdr)
                /\ UNCHANGED apiKeys
           ELSE /\ apiKeys' = TouchedKeys(hdr)
                /\ Reply("GET /api-keys", <<>>, 200, caller.user,
                         Obj([apiKeys |->
                                [i \in DOMAIN mine |->
                                   toApiKeyDTO(mine[i], FALSE)]]))
        /\ UNCHANGED <<context, accounts, processor, describer, cli, dataRoot, now, uuids,
                       createdLog, deletedLog, revivedLog, uploadedLog, revokedLog>>

\* The index of the key with this id that belongs to this user, or 0.
FindOwned(keys, id, userId) ==
  LET at == {i \in DOMAIN keys : keys[i].id = id /\ keys[i].userId = userId}
  IN  IF at = {} THEN 0 ELSE CHOOSE j \in at : \A l \in at : j <= l

UpdateApiKeyStatus ==
  \E hdr \in Headers, id \in 1..uuids.keys,
     given \in BOOLEAN, isActive \in BOOLEAN :
    LET caller == authenticateApiKey(hdr)
        keys   == TouchedKeys(hdr)
        at     == FindOwned(keys, id, caller.user)
    IN  /\ given \/ isActive
        /\ IF ~caller.passed
           THEN /\ Refused("PATCH /api-keys", id, hdr)
                /\ UNCHANGED apiKeys
           ELSE IF ~given
           THEN /\ Reply("PATCH /api-keys", id, 400, caller.user,
                         Error("isActive field is required"))
                /\ apiKeys' = keys
           ELSE IF at = 0
           THEN /\ Reply("PATCH /api-keys", id, 404, caller.user,
                         Error("API key not found"))
                /\ apiKeys' = keys
           ELSE /\ apiKeys' = [keys EXCEPT ![at].isActive = isActive]
                /\ Reply("PATCH /api-keys", id, 200, caller.user,
                         Obj([apiKey |->
                                toApiKeyDTO([keys[at] EXCEPT
                                               !.isActive = isActive],
                                            FALSE)]))
        /\ UNCHANGED <<context, accounts, processor, describer, cli, dataRoot, now, uuids,
                       createdLog, deletedLog, revivedLog, uploadedLog, revokedLog>>

DeleteApiKey ==
  \E hdr \in Headers, id \in 1..uuids.keys :
    LET caller == authenticateApiKey(hdr)
        keys   == TouchedKeys(hdr)
        kept   == SelectSeq(keys, LAMBDA k :
                              ~(k.id = id /\ k.userId = caller.user))
        gone   == {[key |-> keys[i].key, userId |-> keys[i].userId,
                    by |-> caller.user] :
                     i \in {j \in DOMAIN keys :
                              keys[j].id = id /\ keys[j].userId = caller.user}}
    IN  /\ IF ~caller.passed
           THEN /\ Refused("DELETE /api-keys", id, hdr)
                /\ UNCHANGED <<apiKeys, revokedLog>>
           ELSE IF Len(kept) = Len(keys)
           THEN /\ Reply("DELETE /api-keys", id, 404, caller.user,
                         Error("API key not found"))
                /\ apiKeys' = keys
                /\ UNCHANGED revokedLog
           ELSE /\ apiKeys' = kept
                /\ revokedLog' = revokedLog \cup gone
                /\ Reply("DELETE /api-keys", id, 200, caller.user,
                         Obj([message |-> "API key deleted successfully"]))
        /\ UNCHANGED <<context, accounts, processor, describer, cli, dataRoot, now, uuids,
                       createdLog, deletedLog, revivedLog, uploadedLog>>

\* A well-formed identifier no POST /v1/collections ever returned.
StrayId == MakeId("4", "a", "7")

\* The collectionId a request may name.
TargetIds == {GoodIds[i] : i \in 1..uuids.colls} \cup {StrayId, BadId}

ServerCollNames == {CollName}

\* The n-th file identifier uuidv4() returns.
FileId(n) == MakeId("4", "b", Decimal(n)[1])

\* The files a client may send: name and declared type.
UploadFiles ==
  { [originalname |-> <<"a", ".", "P", "N", "G">>, mimetype |-> "image/png"],
    [originalname |-> <<"b">>, mimetype |-> "image/gif"],
    [originalname |-> <<"c", ".", "t", "x", "t">>, mimetype |-> "text/plain"] }

\* The files of one multipart request: none, one, or two of them.
FileBatches ==
  {<<>>} \cup {<<f>> : f \in {x \in UploadFiles : x.mimetype = "text/plain"}}
         \cup {<<f, g>> : f \in {x \in UploadFiles : x.mimetype = "image/gif"},
                          g \in {x \in UploadFiles : x.mimetype = "image/png"}}

\* path.extname: from the last dot of the name, unless the name starts
\* with it or has none.
ExtName(name) ==
  LET dots == {i \in DOMAIN name : name[i] = "."}
      last == CHOOSE i \in dots : \A j \in dots : j <= i
  IN  IF dots = {} \/ last = 1 THEN <<>> ELSE From(name, last)

getExtensionFromMimeType(mimetype) ==
  CASE mimetype = "image/jpeg"    -> <<".", "j", "p", "g">>
    [] mimetype = "image/png"     -> <<".", "p", "n", "g">>
    [] mimetype = "image/gif"     -> <<".", "g", "i", "f">>
    [] mimetype = "image/webp"    -> <<".", "w", "e", "b", "p">>
    [] mimetype = "image/svg+xml" -> <<".", "s", "v", "g">>
    [] mimetype = "image/bmp"     -> <<".", "b", "m", "p">>
    [] mimetype = "image/tiff"    -> <<".", "t", "i", "f", "f">>
    [] OTHER                      -> <<".", "j", "p", "g">>

getContentTypeFromExtension(ext) ==
  CASE ext \in {<<".", "j", "p", "g">>, <<".", "j", "p", "e", "g">>}
                                       -> "image/jpeg"
    [] ext = <<".", "p", "n", "g">>      -> "image/png"
    [] ext = <<".", "g", "i", "f">>      -> "image/gif"
    [] ext = <<".", "w", "e", "b", "p">> -> "image/webp"
    [] ext = <<".", "s", "v", "g">>      -> "image/svg+xml"
    [] ext = <<".", "b", "m", "p">>      -> "image/bmp"
    [] ext = <<".", "t", "i", "f", "f">> -> "image/tiff"
    [] OTHER                             -> "null"

\* The type res.sendFile gives a file the server set no type for.
SendFileType(ext) ==
  IF ext = <<".", "t", "x", "t">> THEN "text/plain"
  ELSE "application/octet-stream"

DirExists(id) == \E d \in dataRoot : d.id = id

Dir(id) == CHOOSE d \in dataRoot : d.id = id

RmSync_KeepsDirectory(id) == dataRoot

\* fs.rmSync(collectionPath, {recursive: true, force: true})
RmSync(id) == {d \in dataRoot : d.id # id}

\* The names readdirSync finds in a collection directory.
FileName(image) == image.fileId \o image.fileExtension

MetadataJson == <<"m","e","t","a","d","a","t","a",".","j","s","o","n">>

UploadsJson == <<"u","p","l","o","a","d","s",".","j","s","o","n">>

\* What GET /v1/collections answers with: every directory named by a UUID
\* that holds a metadata.json (the order of the array is not modelled).
ListedCollections ==
  {[collectionId |-> d.id,
    collectionName |-> IF d.name # <<>> THEN d.name ELSE d.id] :
     d \in {e \in dataRoot : IsUuidV4(e.id)}}

CreateCollection ==
  \E hdr \in Headers, name \in ServerCollNames \cup {<<>>} :
    LET caller == authenticateApiKey(hdr)
        id     == GoodIds[uuids.colls + 1]
    IN  /\ uuids.colls < MaxColls
        /\ uuids.colls < Len(GoodIds)
        /\ apiKeys' = TouchedKeys(hdr)
        /\ IF ~caller.passed
           THEN /\ Refused("POST /v1/collections", <<>>, hdr)
                /\ UNCHANGED <<dataRoot, uuids, createdLog>>
           ELSE IF name = <<>>
           THEN /\ Reply("POST /v1/collections", <<>>, 400, caller.user,
                         Error("Collection name is required"))
                /\ UNCHANGED <<dataRoot, uuids, createdLog>>
           ELSE IF DirExists(id)
           THEN /\ Reply("POST /v1/collections", <<>>, 409, caller.user,
                         Error("Collection ID already exists"))
                /\ uuids' = [uuids EXCEPT !.colls = @ + 1]
                /\ UNCHANGED <<dataRoot, createdLog>>
           ELSE /\ dataRoot' = dataRoot \cup
                                 {[id |-> id, name |-> name, images |-> <<>>]}
                /\ uuids' = [uuids EXCEPT !.colls = @ + 1]
                /\ createdLog' = createdLog \cup
                                   {[collectionId |-> id,
                                     collectionName |-> name,
                                     user |-> caller.user]}
                /\ Reply("POST /v1/collections", <<>>, 201, caller.user,
                         Obj([collectionId |-> id, collectionName |-> name]))
        /\ UNCHANGED <<context, accounts, processor, describer, cli, now, deletedLog,
                       revivedLog, uploadedLog, revokedLog>>

GetCollections ==
  \E hdr \in Headers :
    LET caller == authenticateApiKey(hdr)
    IN  /\ apiKeys' = TouchedKeys(hdr)
        /\ IF ~caller.passed
           THEN Refused("GET /v1/collections", <<>>, hdr)
           ELSE Reply("GET /v1/collections", <<>>, 200, caller.user,
                      Obj([collections |-> ListedCollections]))
        /\ UNCHANGED <<context, accounts, processor, describer, cli, dataRoot, now, uuids,
                       createdLog, deletedLog, revivedLog, uploadedLog, revokedLog>>

\* The metadata of the files of one request, in the order they were sent.
ImageMetadata(files) ==
  [i \in DOMAIN files |->
     [originalName |-> files[i].originalname,
      fileId |-> FileId(uuids.files + i),
      fileExtension |->
        IF ExtName(files[i].originalname) # <<>>
        THEN ExtName(files[i].originalname)
        ELSE getExtensionFromMimeType(files[i].mimetype)]]

UploadAssets ==
  \E hdr \in Headers, id \in TargetIds, files \in FileBatches :
    LET caller == authenticateApiKey(hdr)
        route  == "POST /v1/collections/:collectionId/assets"
        before == IF DirExists(id)
                  THEN Dir(id)
                  ELSE [id |-> id, name |-> id, images |-> <<>>]
        images == ImageMetadata(files)
    IN  /\ uuids.files + Len(files) <= MaxFiles
        /\ apiKeys' = TouchedKeys(hdr)
        /\ IF ~caller.passed
           THEN /\ Refused(route, id, hdr)
                /\ UNCHANGED <<dataRoot, uuids, revivedLog, uploadedLog>>
           ELSE IF ~IsUuidV4(id)
           THEN /\ Reply(route, id, 400, caller.user,
                         Error("Invalid collection ID format"))
                /\ UNCHANGED <<dataRoot, uuids, revivedLog, uploadedLog>>
           ELSE IF files = <<>>
           THEN /\ Reply(route, id, 400, caller.user,
                         Error("No images uploaded"))
                /\ UNCHANGED <<dataRoot, uuids, revivedLog, uploadedLog>>
           ELSE /\ dataRoot' = {d \in dataRoot : d.id # id} \cup
                                 {[before EXCEPT !.images = @ \o images]}
                /\ uuids' = [uuids EXCEPT !.files = @ + Len(files)]
                /\ revivedLog' = IF ~DirExists(id) /\ id \in deletedLog
                                 THEN revivedLog \cup {id}
                                 ELSE revivedLog
                /\ uploadedLog' = uploadedLog \cup
                     {[collectionId |-> id, existed |-> DirExists(id),
                       image |-> images[i]] : i \in DOMAIN images}
                /\ Reply(route, id, 200, caller.user,
                         Obj([collectionId |-> id, images |-> images]))
        /\ UNCHANGED <<context, accounts, processor, describer, cli, now, createdLog,
                       deletedLog, revokedLog>>

\* The status and body of GET /v1/collections/:collectionId/assets.
AssetListing(id) ==
  IF ~IsUuidV4(id)
  THEN [status |-> 400, body |-> Error("Invalid collection ID format")]
  ELSE IF ~DirExists(id)
  THEN [status |-> 404, body |-> Error("Collection not found")]
  ELSE IF Dir(id).images = <<>>
  THEN [status |-> 200, body |-> Obj([images |-> <<>>])]
  ELSE [status |-> 200,
        body |-> Obj([collectionId |-> id, images |-> Dir(id).images])]

GetAssets ==
  \E hdr \in Headers, id \in TargetIds :
    LET caller == authenticateApiKey(hdr)
        route  == "GET /v1/collections/:collectionId/assets"
    IN  /\ apiKeys' = TouchedKeys(hdr)
        /\ IF ~caller.passed
           THEN Refused(route, id, hdr)
           ELSE Reply(route, id, AssetListing(id).status, caller.user,
                      AssetListing(id).body)
        /\ UNCHANGED <<context, accounts, processor, describer, cli, dataRoot, now, uuids,
                       createdLog, deletedLog, revivedLog, uploadedLog, revokedLog>>

DeleteCollection ==
  \E hdr \in Headers, id \in TargetIds :
    LET caller == authenticateApiKey(hdr)
        route  == "DELETE /v1/collections/:collectionId"
    IN  /\ apiKeys' = TouchedKeys(hdr)
        /\ IF ~caller.passed
           THEN /\ Refused(route, id, hdr)
                /\ UNCHANGED <<dataRoot, deletedLog>>
           ELSE IF ~IsUuidV4(id)
           THEN /\ Reply(route, id, 400, caller.user,
                         Error("Invalid collection ID format"))
                /\ UNCHANGED <<dataRoot, deletedLog>>
           ELSE IF ~DirExists(id)
           THEN /\ Reply(route, id, 404, caller.user,
                         Error("Collection not found"))
                /\ UNCHANGED <<dataRoot, deletedLog>>
           ELSE /\ dataRoot' = RmSync(id)
                /\ deletedLog' = deletedLog \cup {id}
                /\ Reply(route, id, 200, caller.user,
                         Obj([message |-> "Collection deleted successfully"]))
        /\ UNCHANGED <<context, accounts, processor, describer, cli, now, uuids, createdLog,
                       revivedLog, uploadedLog, revokedLog>>

\* The file parameters a request for an asset may carry: the name or the
\* identifier of a file that was stored, or the start of metadata.json.
StoredImages == UNION {{d.images[i] : i \in DOMAIN d.images} : d \in dataRoot}

FileParams ==
  UNION {{image.fileId, FileName(image)} : image \in StoredImages}
    \cup {<<"m", "e", "t", "a">>}

\* The status, the content type and the file GET /v1/assets answers with.
AssetServed(id, fileParam) ==
  LET files == IF DirExists(id)
               THEN {FileName(Dir(id).images[i]) :
                       i \in DOMAIN Dir(id).images}
                      \cup {MetadataJson}
                      \cup (IF Dir(id).images # <<>> THEN {UploadsJson}
                            ELSE {})
               ELSE {}
      found == {f \in files : /\ StartsWith(f, fileParam)
                              /\ f # MetadataJson
                              /\ f # UploadsJson}
      file  == CHOOSE f \in found : TRUE
      ext   == ToLower(ExtName(file))
  IN  IF ~IsUuidV4(id) THEN [status |-> 400, contentType |-> "json"]
      ELSE IF ~DirExists(id) THEN [status |-> 404, contentType |-> "json"]
      ELSE IF found = {} THEN [status |-> 404, contentType |-> "json"]
      ELSE [status |-> 200,
            contentType |->
              IF getContentTypeFromExtension(ext) # "null"
              THEN getContentTypeFromExtension(ext)
              ELSE SendFileType(ext)]

\* GET /v1/assets/:collectionId/:fileId needs no key.
ServeAsset ==
  \E id \in TargetIds, fileParam \in FileParams :
    /\ Reply("GET /v1/assets/:collectionId/:fileId", id,
             AssetServed(id, fileParam).status, "none",
             [json |-> AssetServed(id, fileParam).contentType,
              val |-> fileParam])
    /\ UNCHANGED <<context, accounts, processor, describer, cli, apiKeys, dataRoot, now, uuids,
                   createdLog, deletedLog, revivedLog, uploadedLog, revokedLog>>

\* Time passes.
Tick ==
  /\ now < MaxClock
  /\ now' = now + 1
  /\ UNCHANGED <<context, accounts, processor, describer, cli, apiKeys, dataRoot, uuids,
                 response, createdLog, deletedLog, revivedLog, uploadedLog, revokedLog>>

\* The server is started on an empty DATA_ROOT; the command-line client is
\* not running.
ServerInit ==
  /\ CliInit
  /\ input = ImageTag(<<"a">>, <<"p">>)
  /\ build = "v1"
  /\ auth = "apiKey"
  /\ options = DefaultOptions
  /\ colls = {}

\* The collection and asset routes, called with the keys the server started
\* with.
ServerNext ==
  \/ CreateCollection
  \/ GetCollections
  \/ UploadAssets
  \/ GetAssets
  \/ DeleteCollection
  \/ ServeAsset

ServerSpec == ServerInit /\ [][ServerNext]_vars

\* The API-key routes and the passing of time, on a DATA_ROOT that stays
\* empty.
ApiKeyNext ==
  \/ CreateApiKey
  \/ GetUserApiKeys
  \/ UpdateApiKeyStatus
  \/ DeleteApiKey
  \/ Tick

ApiKeySpec == ServerInit /\ [][ApiKeyNext]_vars

(***************************************************************************)
(* getSurroundingParagraphs: the context handed to the description call.   *)
(***************************************************************************)
MaxLines == 3

\* The lines the documents are made of: blank and whitespace-only lines, a
\* one-character line, a padded text line, image tags with and without alt
\* text, a line that is a link, a text line that holds a link, and an image
\* tag broken over two lines.
ContextLines ==
  { <<>>,
    <<" ">>,
    <<"x">>,
    <<" ","a","b"," ">>,
    ImageTag(<<"c">>, <<"u">>),
    ImageTag(<<>>, <<"u">>),
    <<"[","l","]","(","u",")">>,
    <<"t","[","l","]","(","u",")">>,
    <<"!","[","c">>,
    <<"]","(","u",")">> }

ContextDocuments ==
  {JoinLines(ls) : ls \in UNION {[1..n -> ContextLines] : n \in 1..MaxLines}}

\* markdown.split("\n")
RECURSIVE SplitLines(_)
SplitLines(s) ==
  LET p == FindChar(s, "\n", 1)
  IN  IF p = 0 THEN <<s>>
      ELSE <<SubSeq(s, 1, p - 1)>> \o SplitLines(From(s, p + 1))

LineReached_Inclusive(currentPosition, lineLength, matchIndex) ==
  currentPosition + lineLength >= matchIndex

\* if (currentPosition + lineLength > matchIndex)
LineReached(currentPosition, lineLength, matchIndex) ==
  currentPosition + lineLength > matchIndex

\* The loop that finds the line of matchIndex; i and the value are 0-based
\* as in the code, and 0 is returned when no line is reached.
RECURSIVE LineIndexFrom(_, _, _, _)
LineIndexFrom(lines, i, currentPosition, matchIndex) ==
  IF i >= Len(lines) THEN 0
  ELSE LET lineLength == Len(lines[i + 1]) + 1
       IN  IF LineReached(currentPosition, lineLength, matchIndex) THEN i
           ELSE LineIndexFrom(lines, i + 1, currentPosition + lineLength,
                              matchIndex)

\* One attempt of /!\[([^\]]*)\](?:\([^)]+\))/ at position i.
ImageRegexAt(s, i) ==
  IF ~(i + 1 <= Len(s) /\ s[i] = "!" /\ s[i + 1] = "[") THEN NoMatch
  ELSE LET j == FindChar(s, "]", i + 2)
       IN  IF j = 0 \/ j + 1 > Len(s) \/ s[j + 1] # "(" THEN NoMatch
           ELSE LET k == FindChar(s, ")", j + 2)
                IN  IF k = 0 \/ k = j + 2 THEN NoMatch
                    ELSE [ok |-> TRUE, index |-> i, last |-> k,
                          alt |-> SubSeq(s, i + 2, j - 1)]

\* line.match(imageRegex): the leftmost match.
ImageRegexMatch(s) ==
  LET hits == {i \in 1..Len(s) : ImageRegexAt(s, i).ok}
  IN  IF hits = {} THEN NoMatch
      ELSE ImageRegexAt(s, CHOOSE i \in hits : \A j \in hits : i <= j)

\* One attempt of /\[([^\]]*)\](?:\([^)]+\))/ at position i.
LinkRegexAt(s, i) ==
  IF ~(i <= Len(s) /\ s[i] = "[") THEN NoMatch
  ELSE LET j == FindChar(s, "]", i + 1)
       IN  IF j = 0 \/ j + 1 > Len(s) \/ s[j + 1] # "(" THEN NoMatch
           ELSE LET k == FindChar(s, ")", j + 2)
                IN  IF k = 0 \/ k = j + 2 THEN NoMatch
                    ELSE [ok |-> TRUE, index |-> i, last |-> k]

\* fullContent.replace(/\[([^\]]*)\](?:\([^)]+\))/, "")
RemoveFirstLink(s) ==
  LET hits == {i \in 1..Len(s) : LinkRegexAt(s, i).ok}
  IN  IF hits = {} THEN s
      ELSE LET m == LinkRegexAt(s, CHOOSE i \in hits : \A j \in hits : i <= j)
           IN  SubSeq(s, 1, m.index - 1) \o From(s, m.last + 1)

\* meaningfulTextRegex.test(s) with /^[^!\[].*\S/
MeaningfulText(s) ==
  /\ Len(s) >= 1
  /\ s[1] \notin {"!", "["}
  /\ \E j \in 2..Len(s) : s[j] \notin Whitespace

\* The backward search, from the 0-based line i upwards.
RECURSIVE BeforeFrom(_, _)
BeforeFrom(lines, i) ==
  IF i < 0 THEN <<>>
  ELSE LET line == Trim(lines[i + 1])
           imageMatch == ImageRegexMatch(line)
       IN  IF Len(line) = 0 THEN BeforeFrom(lines, i - 1)
           ELSE IF imageMatch.ok THEN imageMatch.alt
           ELSE IF MeaningfulText(line) THEN line
           ELSE BeforeFrom(lines, i - 1)

\* The while loop that appends the following lines to a line that opens an
\* image or a link and does not close it.
RECURSIVE FullContent(_, _, _)
FullContent(lines, fullContent, j) ==
  IF /\ j < Len(lines)
     /\ IndexOf(fullContent, <<")">>) = 0
     /\ \/ IndexOf(fullContent, <<"!", "[">>) > 0
        \/ IndexOf(fullContent, <<"]", "(">>) > 0
  THEN FullContent(lines, fullContent \o <<" ">> \o Trim(lines[j + 1]), j + 1)
  ELSE fullContent

\* The forward search, from the 0-based line i downwards.
RECURSIVE AfterFrom(_, _)
AfterFrom(lines, i) ==
  IF i >= Len(lines) THEN <<>>
  ELSE LET line == Trim(lines[i + 1])
           fullContent == FullContent(lines, line, i + 1)
           imageMatch == ImageRegexMatch(fullContent)
       IN  IF Len(line) = 0 THEN AfterFrom(lines, i + 1)
           ELSE IF imageMatch.ok THEN imageMatch.alt
           ELSE IF MeaningfulText(fullContent)
                THEN Trim(RemoveFirstLink(fullContent))
           ELSE AfterFrom(lines, i + 1)

\* getSurroundingParagraphs is called with a document and an offset in it.
ContextInit ==
  /\ Fresh
  /\ input = ImageTag(<<"a">>, <<"p">>)
  /\ build = "v1"
  /\ auth = "apiKey"
  /\ colls = {}
  /\ pc = "Init"
  /\ options = DefaultOptions
  /\ imageDescriber = "null"
  /\ cpc = "processMarkdown"
  /\ exitCode = -1
  /\ writes = <<>>
  /\ DescriberIdle
  /\ ServerStarted
  /\ AccountsIdle
  /\ gsp \in UNION {{[NoActivation EXCEPT !.pc = "called", !.markdown = d,
                                       !.matchIndex = n]
                       : n \in 0..(Len(d) - 1)} : d \in ContextDocuments}

\* The first loop: the line the offset falls in.
LocateLine ==
  /\ gsp.pc = "called"
  /\ gsp' = [gsp EXCEPT !.pc = "located",
                        !.currentLineIndex =
                          LineIndexFrom(SplitLines(gsp.markdown), 0, 0,
                                        gsp.matchIndex)]
  /\ UNCHANGED <<processor, describer, cli, server, accounts>>

\* The second loop: the nearest meaningful content above the line.
SearchBefore ==
  /\ gsp.pc = "located"
  /\ gsp' = [gsp EXCEPT !.pc = "searchedBefore",
                        !.beforeText =
                          BeforeFrom(SplitLines(gsp.markdown),
                                     gsp.currentLineIndex - 1)]
  /\ UNCHANGED <<processor, describer, cli, server, accounts>>

\* The third loop: the nearest meaningful content below the line.
SearchAfter ==
  /\ gsp.pc = "searchedBefore"
  /\ gsp' = [gsp EXCEPT !.pc = "searchedAfter",
                        !.afterText =
                          AfterFrom(SplitLines(gsp.markdown),
                                    gsp.currentLineIndex + 1)]
  /\ UNCHANGED <<processor, describer, cli, server, accounts>>

\* return { beforeText: beforeText.trim(), afterText: afterText.trim() }
ReturnParagraphs ==
  /\ gsp.pc = "searchedAfter"
  /\ gsp' = [gsp EXCEPT !.pc = "returned",
                        !.beforeText = Trim(gsp.beforeText),
                        !.afterText = Trim(gsp.afterText)]
  /\ UNCHANGED <<processor, describer, cli, server, accounts>>

ContextNext ==
  \/ LocateLine
  \/ SearchBefore
  \/ SearchAfter
  \/ ReturnParagraphs

ContextSpec == ContextInit /\ [][ContextNext]_vars

(***************************************************************************)
(* Registration: AuthController.register and UserService.createUser, with  *)
(* several requests in progress on the one event loop.                     *)
(***************************************************************************)
Emails == {"e1", "e2"}

\* users.some((user) => user.email === email)
EmailTaken(users, email) == \E i \in DOMAIN users : users[i].email = email

\* The request is received with valid fields.  findByEmail reads users.json;
\* when the e-mail is free createUser is called, reads users.json into its
\* local users and checks it again, then waits for bcrypt.genSalt.
Register ==
  \E c \in Callers, email \in Emails :
    /\ calls[c].pc = "idle"
    /\ calls' = [calls EXCEPT ![c] =
                   IF EmailTaken(usersFile, email)
                   THEN [pc |-> "done", email |-> email, users |-> <<>>,
                         status |-> 400]
                   ELSE [pc |-> "genSalt", email |-> email,
                         users |-> usersFile, status |-> 0]]
    /\ UNCHANGED <<context, processor, describer, cli, server, usersFile>>

\* bcrypt.genSalt has resolved; createUser waits for bcrypt.hash.
HashPassword ==
  \E c \in Callers :
    /\ calls[c].pc = "genSalt"
    /\ calls' = [calls EXCEPT ![c].pc = "hash"]
    /\ UNCHANGED <<context, processor, describer, cli, server, usersFile>>

\* bcrypt.hash has resolved: users.push(newUser); this.saveUsers(users); the
\* controller answers 201 with the new user.
SaveUser ==
  \E c \in Callers :
    /\ calls[c].pc = "hash"
    /\ usersFile' = Append(calls[c].users, [id |-> c, email |-> calls[c].email])
    /\ calls' = [calls EXCEPT ![c].pc = "done", ![c].status = 201]
    /\ UNCHANGED <<context, processor, describer, cli, server>>

AccountsInit ==
  /\ Fresh
  /\ input = ImageTag(<<"a">>, <<"p">>)
  /\ build = "v1"
  /\ auth = "apiKey"
  /\ colls = {}
  /\ pc = "Init"
  /\ options = DefaultOptions
  /\ imageDescriber = "null"
  /\ cpc = "processMarkdown"
  /\ exitCode = -1
  /\ writes = <<>>
  /\ DescriberIdle
  /\ ServerStarted
  /\ ContextIdle
  /\ AccountsIdle

AccountsNext ==
  \/ Register
  \/ HashPassword
  \/ SaveUser

AccountsSpec == AccountsInit /\ [][AccountsNext]_vars

(***************************************************************************)
(* processMarkdown run again, on a document an earlier run returned.       *)
(***************************************************************************)
\* References an earlier run rewrote: the alt text it kept or was given and
\* the hosted URL of the asset it stored.
RewrittenTags ==
  {ImageTag(<<"a">>, HostedUrl(1)), ImageTag(<<"d">>, HostedUrl(2))}

\* References an earlier run left as they were, their upload having failed.
LeftoverTags == {ImageTag(<<"a">>, <<"p">>), ImageTag(<<"b">>, DataUri)}

\* The documents in which every reference was rewritten.
RewrittenDocuments ==
  {JoinLines(ls) : ls \in UNION {[1..n -> RewrittenTags] : n \in 1..MaxRefs}}

ReturnedDocuments ==
  {JoinLines(ls) :
     ls \in UNION {[1..n -> RewrittenTags \cup LeftoverTags] : n \in 1..MaxRefs}}

\* A new process and a new ApiClient; the store holds the collection and the
\* two assets of the earlier run.
RerunInit ==
  /\ input \in ReturnedDocuments
  /\ build \in {"legacy", "v1"}
  /\ auth \in {"apiKey", "password"}
  /\ build = "legacy" => auth = "password"
  /\ collectionId = <<>>
  /\ processedMarkdown = input
  /\ markdown = <<>>
  /\ result = <<>>
  /\ matches = <<>>
  /\ idx = 1
  /\ output = <<>>
  /\ memo = [id |-> <<>>, name |-> <<>>]
  /\ colls = {[collectionId |-> GoodIds[1], collectionName |-> CollName]}
  /\ assets = 2
  /\ requests = <<>>
  /\ ensureCalls = 0
  /\ ensured = [called |-> FALSE, ok |-> FALSE, id |-> <<>>]
  /\ scans = 0
  /\ outcomes = <<>>
  /\ origin = [i \in 1..Len(input) |-> i]
  /\ pc = "Init"
  /\ options = DefaultOptions
  /\ imageDescriber = "null"
  /\ cpc = "processMarkdown"
  /\ exitCode = -1
  /\ writes = <<>>
  /\ DescriberIdle
  /\ ServerStarted
  /\ ContextIdle
  /\ AccountsIdle

RerunSpec == RerunInit /\ [][Next]_vars

(***************************************************************************)
(* Properties.                                                             *)
(***************************************************************************)
Kinds == {"local", "remote", "base64"}

\* The image references of the input document: position and matched text.
InputRefs ==
  UNION {LET ms == MatchAll(k, input)
         IN  {[index |-> ms[i].index, full |-> ms[i].full, alt |-> ms[i].alt,
               loc |-> ms[i].loc, kind |-> k] : i \in 1..Len(ms)}
         : k \in Kinds}

\* The outcome o belongs to a reference of the input document.
OfInputRef(o) ==
  o.org > 0 /\ SubSeq(input, o.org, o.org + Len(o.full) - 1) = o.full

\* The characters from..to of the input document are all still in the
\* working text: no replacement has touched them.
Intact(from, to) ==
  \A q \in from..to : \E i \in DOMAIN origin : origin[i] = q

SpanIntact(o) == Intact(o.org, o.org + Len(o.full) - 1)

\* Every reference of the input document went through its phase's loop.
AllRefsProcessed ==
  \A r \in InputRefs :
    \E i \in DOMAIN outcomes : outcomes[i].org = r.index /\ outcomes[i].full = r.full

\* Alt text that is empty or one of the generic tokens, case-insensitively.
IsGenericAlt(alt) == alt = <<>> \/ ToLower(alt) \in GenericTokens

\* C1: for every reference of the input whose upload fails, the reference's
\* span is the same in the input and in the returned document, whatever
\* happens to the other references.
C1_FailedSpanUntouched ==
  pc = "Done" =>
    \A i \in DOMAIN outcomes :
      (outcomes[i].status = "uploadFailed" /\ OfInputRef(outcomes[i]))
        => SpanIntact(outcomes[i])

\* The hosted URL returned for the upload of the input reference at k.
OwnUrl(k) ==
  LET own == {i \in DOMAIN outcomes : outcomes[i].org = k}
  IN  IF own = {} THEN <<>>
      ELSE outcomes[CHOOSE i \in own : \A j \in own : i <= j].url

\* The input with every reference's locator replaced by its own hosted URL
\* and its alt text kept.
RECURSIVE RewriteFrom(_)
RewriteFrom(i) ==
  LET ahead == {r \in InputRefs : r.index >= i}
  IN  IF ahead = {} THEN From(input, i)
      ELSE LET r == CHOOSE r \in ahead : \A q \in ahead : r.index <= q.index
           IN  SubSeq(input, i, r.index - 1) \o ImageTag(r.alt, OwnUrl(r.index))
                 \o RewriteFrom(r.index + Len(r.full))

WellFormedInput ==
  \A r \in InputRefs :
    /\ ~IsGenericAlt(r.alt)
    /\ r.kind = "local" => ResolvePath(r.loc) \in ExistingFiles
    /\ r.kind = "base64" => r.loc = DataUri

NothingFailed ==
  \A i \in DOMAIN outcomes : outcomes[i].status = "replaced"

\* C2: with N well-formed references carrying non-generic alt text and a
\* reachable store, the output has exactly N substitutions, each locator
\* replaced by the hosted URL of the reference's own upload and each alt
\* text unchanged.
C2_ExactlyNSubstitutions ==
  (pc = "Done" /\ WellFormedInput /\ NothingFailed) =>
    /\ Len(outcomes) = Cardinality(InputRefs)
    /\ output = RewriteFrom(1)

\* C3: over the Local, Remote and Base64 phases of one run no reference is
\* uploaded twice: the run sends at most one upload per reference of the
\* input document.
C3_OneUploadPerReference ==
  Count(requests, "upload") <= Cardinality(InputRefs)

\* C4: one run invokes ensureCollection at most once and sends at most one
\* lookup and at most one create request.
C4_EnsureCollectionOnce ==
  /\ ensureCalls <= 1
  /\ Count(requests, "lookup") <= 1
  /\ Count(requests, "create") <= 1

\* The well-formed UUIDv4 identifiers of the model.
WellFormedIds == {GoodIds[i] : i \in DOMAIN GoodIds}

ResolutionFailed ==
  ensured.called /\ ~(ensured.ok /\ ensured.id \in WellFormedIds)

\* C5: when ensureCollection throws or returns an identifier that is not a
\* well-formed UUIDv4, processMarkdown rethrows and no phase runs: no scan,
\* no upload, no description, no substitution.
C5_AbortBeforeAnyPhase ==
  ResolutionFailed =>
    /\ pc = "Aborted"
    /\ scans = 0
    /\ outcomes = <<>>
    /\ \A q \in {"upload", "fetch", "describe"} : Count(requests, q) = 0
    /\ processedMarkdown = input
    /\ output = <<>>

C5_Witness == pc = "Aborted" /\ ensured.ok /\ ensured.id = BadId

PhaseOrder ==
  { <<"Init", "CollectionResolved">>, <<"Init", "Aborted">>,
    <<"CollectionResolved", "LocalPhase">>, <<"LocalPhase", "RemotePhase">>,
    <<"RemotePhase", "Base64Phase">>, <<"Base64Phase", "Done">> }

Running == {"CollectionResolved", "LocalPhase", "RemotePhase", "Base64Phase"}

\* The loop of the current phase can take its next iteration.
LoopCanStep ==
  ENABLED (ProcessLocalImage \/ ProcessRemoteImage \/ ProcessBase64Image)

\* C6: once the collection is resolved, the run goes through LocalPhase,
\* RemotePhase and Base64Phase in this order and reaches Done, returning the
\* working text, whatever fails for the single references: every step either
\* moves to the next phase or advances the phase's loop by one match, the
\* loop can always take its next iteration, and Aborted is entered from Init
\* only.
C6_PhasesAlwaysComplete ==
  /\ [][/\ pc' # pc => <<pc, pc'>> \in PhaseOrder
        /\ pc' = pc => /\ idx <= Len(matches)
                       /\ idx' = idx + 1
                       /\ matches' = matches]_vars
  /\ []((pc \in Running /\ idx <= Len(matches)) => LoopCanStep)
  /\ [](pc = "Done" => output = result /\ scans = 3)

C6_Witness ==
  /\ pc = "Done"
  /\ \E i, j, k \in DOMAIN outcomes :
       /\ outcomes[i].status = "uploadFailed"
       /\ outcomes[j].status \in {"describeFailed", "missing"}
       /\ outcomes[k].status = "replaced"

\* C7: a reference whose upload succeeded asks for a description if and only
\* if its alt text is empty or a generic token (case-insensitively), and in
\* every other case the alt text written back is the original one.
C7_DescribeIffGeneric ==
  \A i \in DOMAIN outcomes :
    LET o == outcomes[i]
    IN  o.status \in {"replaced", "describeFailed"} =>
          /\ o.described <=> IsGenericAlt(o.alt)
          /\ (~IsGenericAlt(o.alt) /\ o.status = "replaced")
               => o.written = ImageTag(o.alt, o.url)

\* The local outcome o points to a file that does not exist.
MissingFile(o) == o.kind = "local" /\ ResolvePath(o.loc) \notin ExistingFiles

\* C8: for a local reference to a nonexistent file no upload request is made,
\* its span is unchanged in the output, and every other reference of the
\* document still goes through its phase.
C8_MissingFileIsolated ==
  \A i \in DOMAIN outcomes :
    MissingFile(outcomes[i]) =>
      /\ outcomes[i].uploads = 0
      /\ outcomes[i].status = "missing"
      /\ pc # "Aborted"
      /\ pc = "Done" => SpanIntact(outcomes[i]) /\ AllRefsProcessed

C8_Witness ==
  /\ pc = "Done"
  /\ \E i, j \in DOMAIN outcomes :
       /\ i < j
       /\ MissingFile(outcomes[i])
       /\ outcomes[j].status = "replaced"

\* The data URIs of the input documents that are not of the strict shape
\* data:<mime>;base64,<payload>.
MalformedDataUris == {WrappedDataUri, TruncatedDataUri}

\* The image tags of the input documents that carry such a data URI.
MalformedTags ==
  {ImageTag(<<"i","m","g">>, WrappedDataUri), ImageTag(<<>>, TruncatedDataUri)}

\* The requests initialize() sends before the data URI is parsed.
OnlyLogins(sent) == \A i \in DOMAIN sent : sent[i] = "login"

C10_DescribeFallsBackToImage ==
  /\ dpc # "thrown"
  /\ dpc = "returned" /\ dfailure # "none" => dresult = <<"I","m","a","g","e">>

C10_Witness ==
  /\ dpc = "returned"
  /\ dcall.op = "base64"
  /\ dfailure = "parse"
  /\ dsent = <<>>

\* C11: a reference whose description generation fails keeps its span
\* unchanged in the returned document, the run is not aborted, and every
\* reference of the input still goes through its phase.
C11_DescribeFailureConfined ==
  \A i \in DOMAIN outcomes :
    (outcomes[i].status = "describeFailed" /\ OfInputRef(outcomes[i])) =>
      /\ pc # "Aborted"
      /\ pc = "Done" => SpanIntact(outcomes[i]) /\ AllRefsProcessed

\* C12: when processMarkdown is called with imageDescriber = null (no
\* --describe), no description is requested for any reference and every alt
\* text, empty and generic ones included, is written back unchanged.
C12_NoDescriberNoDescription ==
  imageDescriber = "null" =>
    /\ Count(requests, "describe") = 0
    /\ \A i \in DOMAIN outcomes :
         /\ ~outcomes[i].described
         /\ outcomes[i].status = "replaced" =>
              outcomes[i].written = ImageTag(outcomes[i].alt, outcomes[i].url)

\* The run ended for one of the three fatal conditions the claim names.
NamedFatal ==
  \/ ~options.fileExists
  \/ auth = "none"
  \/ pc = "Aborted"

\* The other conditions on which program.action exits with code 1.
OtherFatal ==
  \/ AiOptionsInvalid(options)
  \/ cpc = "exited" /\ pc = "NotCalled" /\ Count(requests, "login") > 0

\* A run that exits with code 1 wrote nothing; a run that wrote, wrote once,
\* the document processMarkdown returned, and exited with code 0.
WritesOnlyTheReturnedDocument ==
  /\ exitCode = 1 => writes = <<>>
  /\ writes # <<>> => /\ writes = <<output>>
                      /\ pc = "Done"
                      /\ output = result
                      /\ exitCode = 0
  /\ exitCode = 0 => writes # <<>>

Listed(id) == \E c \in ListedCollections : c.collectionId = id

ListedAs(c) ==
  [collectionId |-> c.collectionId, collectionName |-> c.collectionName]
    \in ListedCollections

ImageTypes ==
  {"image/jpeg", "image/png", "image/gif", "image/webp", "image/svg+xml",
   "image/bmp", "image/tiff"}

Range(seq) == {seq[i] : i \in DOMAIN seq}

\* C15: every image a 200 answer of the upload route to an existing
\* collection returned is, while the collection is not deleted, among the
\* images GET /v1/collections/{collectionId}/assets answers with, and GET
\* /v1/assets/{collectionId}/{fileId}{fileExtension} answers 200 for it with
\* an image/* content type.
C15_UploadedImagesListedAndServed ==
  \A u \in uploadedLog :
    (u.existed /\ u.collectionId \notin deletedLog) =>
      /\ AssetListing(u.collectionId).status = 200
      /\ u.image \in Range(AssetListing(u.collectionId).body.val.images)
      /\ AssetServed(u.collectionId, FileName(u.image)).status = 200
      /\ AssetServed(u.collectionId, FileName(u.image)).contentType
           \in ImageTypes

KeyCreated == response.route = "POST /api-keys" /\ response.status = 201

KeysListed == response.route = "GET /api-keys" /\ response.status = 200

\* The keys POST /api-keys made.
CreatedKeyIds == (Len(SeedKeys) + 1)..uuids.keys

Foreign(id, user) ==
  /\ user # "root"
  /\ \E c \in createdLog : c.collectionId = id /\ c.user # user

Answered(routes) == response.route \in routes /\ response.status = 200

C18_KeyAcceptedWhileActiveAndUnexpired ==
  /\ \A i \in DOMAIN apiKeys :
       LET k == apiKeys[i]
       IN  /\ (k.expiresAt = NoDate /\ k.isActive) =>
                /\ authenticateApiKey(k.key).passed
                /\ authenticateApiKey(k.key).user = k.userId
           /\ ~k.isActive => ~authenticateApiKey(k.key).passed
           /\ (k.expiresAt # NoDate /\ k.expiresAt < now) =>
                ~authenticateApiKey(k.key).passed
  /\ \A r \in revokedLog : ~authenticateApiKey(r.key).passed

\* A key without expiry has just been deactivated by its owner, a key was
\* deleted before, and the seeded key of user B has expired.
C18_Witness ==
  /\ response.route = "PATCH /api-keys"
  /\ response.status = 200
  /\ ~response.body.val.apiKey.isActive
  /\ response.body.val.apiKey.expiresAt = NoDate
  /\ revokedLog # {}
  /\ \E i \in DOMAIN apiKeys :
       apiKeys[i].expiresAt # NoDate /\ apiKeys[i].expiresAt < now

PhaseKind ==
  [LocalPhase |-> "local", RemotePhase |-> "remote", Base64Phase |-> "base64"]

PhaseNumber == [LocalPhase |-> 1, RemotePhase |-> 2, Base64Phase |-> 3]

\* C19: the phases are entered in the order Local, Remote, Base64, each by
\* one scan (the first, second and third of the run); the scan of a phase
\* reads the working text as it stands when the phase is entered, which for
\* the Remote and Base64 phases is the text the preceding phase left and
\* which the entry leaves as it is; inside a phase there is no new scan and
\* every step, whatever its outcome, moves on to the next match.
C19_PhasesScanTheWorkingText ==
  /\ [][/\ (pc' # pc /\ pc' \in DOMAIN PhaseKind) =>
             /\ <<pc, pc'>> \in PhaseOrder
             /\ scans' = scans + 1
             /\ LET text == IF pc' = "LocalPhase" THEN processedMarkdown
                            ELSE result
                IN  /\ matches' = Scan(PhaseKind[pc'], text)
                    /\ result' = text
                    /\ idx' = 1
        /\ pc' = pc =>
             /\ scans' = scans
             /\ idx' = idx + 1
             /\ Len(outcomes') = Len(outcomes) + 1]_vars
  /\ [](pc \in DOMAIN PhaseKind => scans = PhaseNumber[pc])
  /\ [](pc = "Done" => scans = 3)

\* The Base64 phase has been entered on a text the earlier phases changed,
\* after a reference that failed, and has found a reference to process.
C19_Witness ==
  /\ pc = "Base64Phase"
  /\ scans = 3
  /\ result # input
  /\ matches # <<>>
  /\ \E i \in DOMAIN outcomes : outcomes[i].status # "replaced"

\* C20: for each match the upload comes first: a description is asked for
\* only when the upload of the same match has succeeded, as the request right
\* after that upload, and the text is substituted only when the upload and,
\* where one was asked for, the description have succeeded.
C20_UploadThenDescribeThenSubstitute ==
  /\ \A j \in DOMAIN requests :
       requests[j] = "describe" => (j > 1 /\ requests[j - 1] = "upload")
  /\ \A i \in DOMAIN outcomes :
       /\ outcomes[i].described =>
            /\ outcomes[i].uploads = 1
            /\ outcomes[i].url # <<>>
            /\ outcomes[i].status \in {"replaced", "describeFailed"}
       /\ outcomes[i].written # <<>> =>
            /\ outcomes[i].status = "replaced"
            /\ outcomes[i].uploads = 1
            /\ outcomes[i].url # <<>>

\* C20 as stated: no description is started after the upload of its
\* reference, and the text is substituted only after both.
C20_DescribeThenUploadThenSubstitute ==
  /\ \A j \in DOMAIN requests :
       requests[j] = "describe" => (j = 1 \/ requests[j - 1] # "upload")
  /\ \A i \in DOMAIN outcomes :
       /\ outcomes[i].described => outcomes[i].uploads = 0
       /\ outcomes[i].written # <<>> => outcomes[i].status = "replaced"

\* A reference with a generic alt text was uploaded, described and
\* rewritten.
C20_Witness ==
  \E i \in DOMAIN outcomes :
    /\ outcomes[i].described
    /\ outcomes[i].status = "replaced"
    /\ outcomes[i].written # <<>>
    /\ Count(requests, "describe") > 0

\* The image tag that starts at position i of s, whichever pattern takes it.
AnyMatchAt(s, i) ==
  IF MatchAt("local", s, i).ok THEN MatchAt("local", s, i)
  ELSE IF MatchAt("remote", s, i).ok THEN MatchAt("remote", s, i)
  ELSE MatchAt("base64", s, i)

\* The image tags of s in document order.
RECURSIVE TagsFrom(_, _)
TagsFrom(s, i) ==
  LET hits == {j \in i..Len(s) : AnyMatchAt(s, j).ok}
  IN  IF hits = {} THEN <<>>
      ELSE LET m == AnyMatchAt(s, CHOOSE j \in hits : \A h \in hits : j <= h)
           IN  <<m>> \o TagsFrom(s, m.last + 1)

TagsOf(s) == TagsFrom(s, 1)

\* The loop of the current phase has gone through all its matches.
PhaseComplete == pc \in DOMAIN PhaseKind /\ idx > Len(matches)

\* The outcome of the j-th match of the current phase, once it is complete.
PhaseOutcome(j) == outcomes[Len(outcomes) - Len(matches) + j]

\* The matches of the current phase with the same matched text as the j-th.
Twins(j) == {i \in 1..Len(matches) : matches[i].full = matches[j].full}

\* The tag of the working text that stands where the j-th match stood in
\* the text at phase entry carries the hosted URL of the j-th upload.
CarriesOwnUrl(j) ==
  LET before == TagsOf(markdown)
      after  == TagsOf(result)
  IN  /\ Len(after) = Len(before)
      /\ \A q \in 1..Len(before) :
           before[q].index = matches[j].index =>
             after[q].loc = PhaseOutcome(j).url

\* C21: when a phase is complete, for every group of two or more
\* byte-identical tags of the phase that were all uploaded and substituted,
\* every occurrence has been replaced and the i-th occurrence in document
\* order carries the hosted URL of the i-th upload.
C21_IdenticalTagsReplacedInOrder ==
  PhaseComplete =>
    \A j \in 1..Len(matches) :
      (/\ Cardinality(Twins(j)) > 1
       /\ \A i \in Twins(j) : PhaseOutcome(i).status = "replaced")
        => CarriesOwnUrl(j)

\* The working texts of a run: the document read, the text at phase entry,
\* the text being rewritten and the document returned.
Texts == {input, markdown, result, output}

\* The patterns that match at position i of s.
MatchingKinds(s, i) == {k \in Kinds : MatchAt(k, s, i).ok}

\* C22: at every position of every text of a run at most one of the Local,
\* Remote and Base64 patterns matches; a tag whose locator begins with
\* http:// or https:// is matched by no pattern but Remote, one whose locator
\* begins with data:image/ by no pattern but Base64, and a tag with neither
\* prefix by no pattern but Local; the matches of a phase are tags that the
\* patterns of the other two phases do not match.
C22_ScannerCategoriesExclusive ==
  /\ \A s \in Texts : \A i \in 1..Len(s) :
       LET ks == MatchingKinds(s, i)
       IN  /\ Cardinality(ks) <= 1
           /\ \A k \in ks :
                LET loc == MatchAt(k, s, i).loc
                    http == StartsWith(loc, HttpPrefix) \/ StartsWith(loc, HttpsPrefix)
                    data == StartsWith(loc, DataImagePrefix)
                IN  /\ http => k = "remote"
                    /\ data => k = "base64"
                    /\ (~http /\ ~data) => k = "local"
  /\ pc \in DOMAIN PhaseKind =>
       \A j \in 1..Len(matches) :
         MatchingKinds(markdown, matches[j].index) = {PhaseKind[pc]}

\* The Base64 phase has found a data URI to process in a text that also
\* holds a tag the Remote pattern matches.
C22_Witness ==
  /\ pc = "Base64Phase"
  /\ Len(matches) > 0
  /\ \E i \in 1..Len(result) : MatchAt("remote", result, i).ok

\* No line break stands before the offset: it falls in the first line.
OnFirstLine == \A q \in 1..gsp.matchIndex : gsp.markdown[q] # "\n"

\* No line break stands at or after the offset: it falls in the last line.
OnLastLine ==
  \A q \in (gsp.matchIndex + 1)..Len(gsp.markdown) : gsp.markdown[q] # "\n"

\* C23: for every document and every offset in it, getSurroundingParagraphs
\* returns an empty beforeText when the offset falls in the first line and
\* an empty afterText when it falls in the last line.
C23_NoContextBeyondTheDocument ==
  gsp.pc = "returned" =>
    /\ OnFirstLine => gsp.beforeText = <<>>
    /\ OnLastLine => gsp.afterText = <<>>

\* The call has returned for an offset in the first of several lines, with
\* a text found below it and none above.
C23_Witness ==
  /\ gsp.pc = "returned"
  /\ OnFirstLine
  /\ ~OnLastLine
  /\ gsp.beforeText = <<>>
  /\ gsp.afterText # <<>>

\* The 0-based number of the line the offset falls in.
RefLine == Cardinality({q \in 1..gsp.matchIndex : gsp.markdown[q] = "\n"})

\* What the claim expects of a line: the alt text when the line is an image
\* reference, the line's text otherwise.
AltOrText(line) ==
  IF ImageRegexMatch(Trim(line)).ok THEN Trim(ImageRegexMatch(Trim(line)).alt)
  ELSE Trim(line)

\* C24: beforeText is taken from the nearest non-blank line above the line
\* of the offset and afterText from the nearest non-blank line below it
\* (empty when there is none): the line's text, or the alt text of the image
\* when the line is an image reference.
C24_NearestNonBlankLines ==
  gsp.pc = "returned" =>
    LET lines == SplitLines(gsp.markdown)
        above == {i \in 0..(RefLine - 1) : Trim(lines[i + 1]) # <<>>}
        below == {i \in (RefLine + 1)..(Len(lines) - 1) : Trim(lines[i + 1]) # <<>>}
    IN  /\ gsp.beforeText =
             IF above = {} THEN <<>>
             ELSE AltOrText(lines[(CHOOSE i \in above : \A j \in above : i >= j) + 1])
        /\ gsp.afterText =
             IF below = {} THEN <<>>
             ELSE AltOrText(lines[(CHOOSE i \in below : \A j \in below : i <= j) + 1])

\* C25: the text the describer returns is at most 100 characters long and
\* does not end with one of the characters . ! , ; : whatever the oracle
\* answered.
C25_CleanedTextShortAndUnpunctuated ==
  dpc = "returned" =>
    /\ Len(dresult) <= 100
    /\ dresult # <<>> => dresult[Len(dresult)] \notin {".", "!", ",", ";", ":"}

\* C26: every image handed to the oracle is the downsized, re-encoded one,
\* never the bytes as they were loaded.
C26_OracleReceivesOnlyDownsizedImages ==
  \A i \in DOMAIN dsent : dsent[i] = "optimized"

\* C27: with the ApiClient of the /v1 build, the identifier ensureCollection
\* has returned and the identifier it has memoized are well-formed UUIDv4s,
\* whether the collection was found by name or created, and a call that
\* failed has memoized nothing.
C27_EnsureCollectionYieldsUuidOrFails ==
  build = "v1" =>
    /\ memo.id # <<>> => IsUuidV4(memo.id)
    /\ ensured.called /\ ensured.ok => IsUuidV4(ensured.id)
    /\ ensured.called /\ ~ensured.ok => memo = [id |-> <<>>, name |-> <<>>]

\* No two users of users.json have the same e-mail address.
EmailsUnique ==
  \A i, j \in DOMAIN usersFile :
    usersFile[i].email = usersFile[j].email => i = j

\* Every user whose registration was answered with 201 is in users.json.
CreatedUsersKept ==
  \A c \in Callers :
    calls[c].status = 201 => \E i \in DOMAIN usersFile : usersFile[i].id = c

\* C28: whatever the interleaving of the createUser calls, users.json never
\* holds two users with the same e-mail address and never loses a user whose
\* createUser call returned successfully.
C28_ConcurrentCreateUserKeepsUsers == EmailsUnique /\ CreatedUsersKept

\* C29: an upload is accepted only for a collection that exists; every
\* directory of DATA_ROOT is one that POST /v1/collections made, and a
\* collection whose DELETE answered 200 is not listed again.
C29_UploadToMissingCollectionRejected ==
  /\ \A u \in uploadedLog : u.existed
  /\ \A d \in dataRoot : \E c \in createdLog : c.collectionId = d.id
  /\ \A id \in deletedLog : ~Listed(id)

\* C30: a run on a document in which every reference already carries a
\* hosted URL and a non-generic alt text sends no upload request and returns
\* the document as it was given.
C30_IdempotentOnOwnOutput ==
  input \in RewrittenDocuments =>
    /\ Count(requests, "upload") = 0
    /\ pc = "Done" => output = input
====
